---------------------------- MODULE Spec2Model ----------------------------
(***************************************************************************)
(* Verification model of the ProxiPy control and actuation stack:          *)
(*   - the phase sequencer        (src/tools/utils.py, create_phase_tracker)*)
(*   - the thruster allocator     (src/classes/Controllers.py)             *)
(*   - the PWM actuator           (src/classes/Thrusters.py)               *)
(*   - the main loop's shutdown   (src/main/main.py)                       *)
(*   - the attitude error         (src/classes/Controllers.py)             *)
(*   - the inertial read loop     (src/classes/BMI160.py)                  *)
(*   - one iteration of the main loop (src/main/main.py)                   *)
(*   - the pose pipeline          (src/classes/Phasespace.py)              *)
(*   - the controller's enable gate (src/classes/Controllers.py)           *)
(*   - the two PWM workers side by side (src/classes/Thrusters.py)         *)
(*   - the pose pipeline's velocities (src/classes/Phasespace.py)          *)
(*   - stop() of the sensor pipelines (Phasespace.py, BMI160.py)           *)
(*   - the dynamics surrogate       (src/classes/Spacecraft.py)            *)
(*   - the log store                (src/classes/Storage.py)               *)
(*   - the order of the phase keys, and is_phase (src/tools/utils.py)      *)
(*   - start() and stop() of the actuator and its workers (Thrusters.py)   *)
(*   - the arguments of the actuator's setters and getters (Thrusters.py)  *)
(*   - the fields main() reads from a pose snapshot (src/main/main.py)     *)
(* Each component has its own specification (SpecPhase, SpecAlloc,         *)
(* SpecPwm and SpecPwmRun, SpecMain, SpecYaw, SpecImu, SpecLoop and        *)
(* SpecLoopSim, SpecPose, SpecCtl, SpecMirror, SpecRate, SpecJoin and      *)
(* SpecJoinFair, SpecDyn, SpecLog, SpecTp, SpecIsPhase, SpecWorkers,       *)
(* SpecApi, SpecSnap); the variables of the other components stay at       *)
(* their constructed values.  SpecJoinFair adds the progress of the        *)
(* pipeline's thread and of the caller of stop() to SpecJoin.  SpecPwmCtl  *)
(* runs the actuator together with calls of the controller.                *)
(*                                                                         *)
(* Units.  Elapsed mission time is counted in tenths of a second.  Duty    *)
(* cycles, the decay factor and body-frame signals of the allocator are    *)
(* fixed-point numbers in thousandths (1000 = 1.0).  PWM duty and elapsed  *)
(* time of the actuator are counted in ticks of 1/PeriodTicks of a period. *)
(***************************************************************************)
EXTENDS Integers, Sequences, FiniteSets, TLC

VARIABLES
    \* ---- phase sequencer (closure state of create_phase_tracker) ----
    phases,            \* the durations, in the order of sorted(phases.keys())
    last_phase,        \* track_phase.last_phase, NoAttr before the first call
    fired,             \* ghost: per phase, how often the transition print ran
    landed,            \* ghost: the values current_phase took in the calls
    last_time,         \* ghost: the elapsed time of the latest track call
    prev_phase,        \* ghost: the cursor before the latest track call
    ncalls,            \* ghost: number of track calls so far (capped)
    increasing,        \* ghost: every call so far had time >= the one before
    \* ---- LinearQuadraticRegulator (allocation part) ----
    geom,                              \* thruster_dist2CG and thruster_F / 2
    controlSignalBodyFrame,            \* <<>> is None
    dutyCycle,                         \* <<>> is None
    current_decay_factor,
    saturatedControlSignalBodyFrame,   \* <<>> is None
    alloc_error,       \* ghost: the latest compute_duty_cycle raised ValueError
    alloc_op,          \* ghost: the controller method called last
    alloc_decay_in,    \* ghost: decay factor the latest allocation scaled H by
    alloc_raw,         \* ghost: the latest pseudo-inverse solution, unclipped
    alloc_duty,        \* ghost: the duty vector the latest allocation returned
    \* ---- Thrusters (one actuator: main process, signal handler, worker) ----
    is_experiment,
    running,                  \* self.running.value
    duty_cycles,              \* the applied duty vector (ticks per period)
    requested_duty_cycles,
    current_states,           \* channel ON/OFF states
    duty_cycle_updated,       \* the dirty flag
    duty_cycle_lock,          \* "free", "main" or "worker"
    gpio,                     \* level of each output pin (experiment mode)
    process,                  \* "none", "alive", "exited" or "killed"
    wpc, wi, elapsed,         \* worker: position, channel index, elapsed time
    mpc, mi, marg,            \* main process: position, index, argument
    hpc,                      \* signal handler running in the main process
    nsignals,                 \* signals delivered so far
    handler_did,      \* ghost: what the signal handler did besides the flag
    stop_returned,    \* ghost: stop() has returned, no start() since
    written,          \* ghost: clamped vectors of the set_all_duty_cycles calls
    single_used,      \* ghost: set_duty_cycle has been called
    period_duty,      \* ghost: the applied vector at the start of the period
    nsets,            \* setter calls so far
    nfaults,          \* failed GPIO writes so far
    \* ---- main(): start-up, control loop, shutdown ----
    IS_EXPERIMENT,
    PLATFORM,                 \* get_platform_id(): 1, 2, or 0 (unknown)
    main_pc,                  \* position in main()
    mk,                       \* index of the actuator a step is at
    sensors,                  \* stream / IMU pipelines: "None", "running",
                              \* "stopped"
    thrusters,                \* per actuator: "None", "constructed",
                              \* "running", "stopped"
    sigint_handler,           \* 0: Python's default; k: actuator k's
                              \* _handle_exit
    dataContainer,            \* "None", "buffering", "written"
    raised,                   \* exception in flight: "None",
                              \* "KeyboardInterrupt", "Exception"
    nticks,                   \* completed loop iterations
    nraised,                  \* exceptions raised by steps so far
    nsigint,                  \* SIGINTs delivered so far
    \* ---- compute_control: the attitude error ----
    yaw_state, yaw_target,    \* state[2], target[2] of the latest call
    error_attitude,           \* <<>> before the first call, else <<error>>
    \* ---- IMUProcessor._read_imu_data ----
    imu_stop,                 \* self._stop_event is set
    consecutive_failures,
    imu_read,                 \* the latest read: "none", "zeros", "valid",
                              \* "error" (getMotion6 raised)
    imu_attempts,             \* ghost: _initialize_sensor calls made in the
                              \* latest iteration
    zero_run,                 \* ghost: all-zero reads in a row since the last
                              \* valid read or the last fifth of them
    zero_hit,                 \* ghost: the latest read was the fifth of them
    nreads,                   \* iterations so far
    total_attempts,   \* ghost: _initialize_sensor calls made by the loop
    \* ---- main(): one iteration of the control loop, one active platform ----
    loop_experiment,          \* IS_EXPERIMENT of this run
    PERIOD,                   \* 1 / SAMPLERATE
    t_now,                    \* elapsed mission time
    loop_pc,                  \* position in the loop body
    enable_control,           \* per controller: its enable_control flag
    nloops,                   \* completed iterations
    tick_decay,       \* ghost: current_decay_factor when the iteration began
    act_decay_in,     \* ghost: decay factor that scaled H for the allocation
                      \* whose duty vector was actuated last
    last_ctl,         \* ghost: t_now of the latest control computation, -1
    last_act,         \* ghost: t_now of the latest actuation, -1
    last_log,         \* ghost: t_now of the latest log row, -1
    \* ---- OwlStreamProcessor: acquisition thread and get() ----
    heap,                     \* the state dicts created so far; a dict is
                              \* referred to by its index
    states,                   \* self.states: per body 0 (None) or a dict
    prev_states,              \* self.prev_states: per body the sample of
                              \* the previous measurement, 0 for None
    pose_lock,                \* self.lock: "free", "thread" or "get"
    pose_stop,                \* self._stop_event is set
    ppc,                      \* acquisition thread: position
    rigids,                   \* the rigid bodies of the frame still to do
    nsamples,                 \* frames received so far
    pending,                  \* the dict the thread is about to publish
    gpc,                      \* the caller of get(): position
    got,                      \* the copy get() returned last: per body 0
                              \* or a dict
    got_content,      \* ghost: what those dicts held when get() returned
    ngets,                    \* get() calls so far
    \* --- one controller, from the flag to the allocation ---
    ctl_enable,               \* its self.enable_control
    controlSignal,            \* its self.controlSignal[0]; <<>> is None
    \* --- the two PWM workers side by side, on the same inputs ---
    mir_running,              \* self.running.value
    mir_requested,            \* self.requested_duty_cycles
    mir_updated,              \* self.duty_cycle_updated.value
    mir_duty,                 \* self.duty_cycles
    mir_pc,                   \* the position both workers are at
    mir_wi,                   \* the channel both loops are at
    mir_elapsed,              \* elapsed_time of both, in ticks
    sim_states,               \* current_states of the simulation worker
    exp_states,               \* current_states of the experiment worker
    \* --- the velocities of the pose pipeline ---
    rate_prev,                \* self.prev_states: per body NoSample (None)
                              \* or [pos, yaw, time]
    rate_states,              \* self.states: per body NoState or the dict
    rate_clock,               \* time.perf_counter(), in milliseconds
    nmeasures,                \* measurements processed so far
    rate_last,                \* ghost: the latest measurement: its body,
                              \* its sample and the previous sample used
    \* --- stop() of a sensor pipeline and its background thread ---
    jn_kind,                  \* the pipeline: "pose" or "imu"
    jn_stop_event,            \* self._stop_event is set
    jn_thread,                \* the thread: "test", "call", "blocked",
                              \* "finally", "exited"
    jn_calls,                 \* polls / sensor reads started so far
    jn_pc,                    \* stop(): "idle", "join", "returned"
    jn_waited,                \* time join() has waited, in half seconds
    \* --- Spacecraft: the dynamics surrogate of one platform ---
    mass, inertia,
    position,                 \* [x, y]
    attitude,
    velocity,                 \* [vx, vy]
    angular_velocity,
    acceleration,             \* the pending [ax, ay]
    angular_acceleration,     \* the pending angular acceleration
    dyn_steps,                \* calls so far
    dyn_last,                 \* ghost: the latest call, and for update()
                              \* the force of the apply_force right before
    \* --- Storage: the log store ---
    expected_size,            \* the allocated length of every array
    storage_data,             \* self.data: per key its array; row r of the
                              \* source is element r + 1
    current_index,
    appended,         \* ghost: the data_dict of every append_data_batch
    index_error,      \* ghost: an append indexed outside its array
    flushed,          \* ghost: the dict write_to_npy saved last
    flushed_at,       \* ghost: appends made before that save, -1: none
    \* --- create_phase_tracker: the start times ---
    phase_map,                \* phases: per phase number i the value of
                              \* key PHASE_<i>_DURATION
    transition_points,        \* the dict of start times; empty before
    \* --- is_phase, called at any time ---
    isp_calls,                \* is_phase calls so far
    isp_arg,                  \* the argument of the latest call
    isp_result,               \* what it did: "none", "True", "False",
                              \* "AttributeError"
    isp_cursor,       \* ghost: last_phase before and after that call
    \* --- Thrusters: the worker processes of one actuator ---
    wk_running,               \* self.running.value
    wk_process,               \* self.process: 0 (None) or the worker that
                              \* the latest start() created
    wk_alive,                 \* the workers that are alive
    wk_starts,                \* start() calls so far
    wk_pc,                    \* stop(): "idle" or "join"
    \* --- Thrusters: the arguments of the setters and getters ---
    api_requested,            \* self.requested_duty_cycles
    api_duty,                 \* self.duty_cycles
    api_states,               \* self.current_states
    api_updated,              \* self.duty_cycle_updated.value
    api_calls,                \* calls so far
    api_last,         \* ghost: the latest call: method, argument, what it
                      \* returned or raised, and the four fields before it
    \* --- main() in an experiment: the fields it reads from a snapshot ---
    snap_platform,            \* PLATFORM: 1 or 2
    snap_states,              \* per body whether it has a dict (or None)
                              \* and the keys of the dict
    snap_pc,                  \* main(): "wait", "t_init", "loop", "done",
                              \* "raised"
    snap_error,               \* the exception a read raised, or "None"
    snap_field,       \* ghost: the field the latest read asked for
    npublished,               \* snapshots published so far
    snap_ticks                \* loop iterations completed

phaseVars == <<phases, last_phase, fired, landed, last_time, prev_phase,
               ncalls, increasing>>

allocVars == <<geom, controlSignalBodyFrame, dutyCycle, current_decay_factor,
               saturatedControlSignalBodyFrame, alloc_error, alloc_op,
               alloc_decay_in, alloc_raw, alloc_duty>>

pwmShared == <<running, duty_cycles, requested_duty_cycles, current_states,
               duty_cycle_updated, duty_cycle_lock, gpio, process>>
pwmWorker == <<wpc, wi, elapsed, period_duty>>
pwmMain   == <<mpc, mi, marg, hpc, nsignals, handler_did, stop_returned,
               written, single_used, nsets>>
pwmVars   == <<is_experiment, pwmShared, pwmWorker, pwmMain, nfaults>>

mainVars == <<IS_EXPERIMENT, PLATFORM, main_pc, mk, sensors, thrusters,
              sigint_handler, dataContainer, raised, nticks, nraised,
              nsigint>>

yawVars == <<yaw_state, yaw_target, error_attitude>>

imuVars == <<imu_stop, consecutive_failures, imu_read, imu_attempts,
             zero_run, zero_hit, nreads, total_attempts>>

loopVars == <<loop_experiment, PERIOD, t_now, loop_pc, enable_control, nloops,
              tick_decay, act_decay_in, last_ctl, last_act, last_log>>

poseVars == <<heap, states, prev_states, pose_lock, pose_stop, ppc, rigids,
              nsamples, pending, gpc, got, got_content, ngets>>

ctlVars == <<ctl_enable, controlSignal>>

mirVars == <<mir_running, mir_requested, mir_updated, mir_duty, mir_pc,
             mir_wi, mir_elapsed, sim_states, exp_states>>

rateVars == <<rate_prev, rate_states, rate_clock, nmeasures, rate_last>>

joinVars == <<jn_kind, jn_stop_event, jn_thread, jn_calls, jn_pc, jn_waited>>

dynVars == <<mass, inertia, position, attitude, velocity, angular_velocity,
             acceleration, angular_acceleration, dyn_steps, dyn_last>>

logVars == <<expected_size, storage_data, current_index, appended, index_error,
             flushed, flushed_at>>

tpVars == <<phase_map, transition_points>>

ispVars == <<isp_calls, isp_arg, isp_result, isp_cursor>>

wkVars == <<wk_running, wk_process, wk_alive, wk_starts, wk_pc>>

idxVars == <<api_requested, api_duty, api_states, api_updated, api_calls,
             api_last>>

snapVars == <<snap_platform, snap_states, snap_pc, snap_error, snap_field,
              npublished, snap_ticks>>

lateVars == <<joinVars, dynVars, logVars, tpVars, ispVars, wkVars, idxVars,
             snapVars>>

extVars == <<yawVars, imuVars, loopVars, poseVars, ctlVars, mirVars,
             rateVars, lateVars>>

vars == <<phaseVars, allocVars, pwmVars, mainVars, extVars>>

\* What the steps of each of the later components leave alone.
oldVars == <<phaseVars, allocVars, pwmVars, mainVars, yawVars, imuVars, loopVars,
            poseVars, ctlVars, mirVars, rateVars>>
joinRest == <<oldVars, dynVars, logVars, tpVars, ispVars, wkVars, idxVars,
            snapVars>>
dynRest == <<oldVars, joinVars, logVars, tpVars, ispVars, wkVars, idxVars,
            snapVars>>
logRest == <<oldVars, joinVars, dynVars, tpVars, ispVars, wkVars, idxVars,
            snapVars>>
tpRest == <<oldVars, joinVars, dynVars, logVars, ispVars, wkVars, idxVars,
            snapVars>>
ispRest == <<oldVars, joinVars, dynVars, logVars, tpVars, wkVars, idxVars,
            snapVars>>
wkRest == <<oldVars, joinVars, dynVars, logVars, tpVars, ispVars, idxVars,
            snapVars>>
idxRest == <<oldVars, joinVars, dynVars, logVars, tpVars, ispVars, wkVars,
            snapVars>>
snapRest == <<oldVars, joinVars, dynVars, logVars, tpVars, ispVars, wkVars,
            idxVars>>
ispOthers == <<joinVars, dynVars, logVars, tpVars, wkVars, idxVars,
              snapVars>>

(***************************************************************************)
(*                           PHASE SEQUENCER                               *)
(***************************************************************************)

\* The value of last_phase while the function attribute does not exist yet.
NoAttr == -2
\* current_phase = None
None == -9

\* Most track calls followed in one run.
MaxTrackCalls == 4

\* phases of main(): PHASE_0..PHASE_5 durations 5,5,40,170,30,20 s (in 0.1 s).
MainPhases == <<50, 50, 400, 1700, 300, 200>>

\* Duration maps the tracker is built from: main()'s and two short ones.
PhaseConfigs == { MainPhases, <<10, 10, 20>>, <<30, 30>> }

\* Elapsed times handed to track (0.1 s): below zero, at, just below and just
\* above boundaries, beyond the end.
TrackTimes == { -1, 0, 9, 10, 11, 29, 30, 49, 50, 51, 60, 100, 500, 2200,
                2500, 2600, 2700 }

RECURSIVE SumTo(_, _)
SumTo(durs, n) == IF n = 0 THEN 0 ELSE SumTo(durs, n - 1) + durs[n]

\* transition_points[i]: the running sum after phase i minus its duration.
TransitionPoints(durs) ==
    [i \in 0 .. Len(durs) - 1 |-> SumTo(durs, i + 1) - durs[i + 1]]

\* Mutant of the start-time comparison: strict.
StartReached_Strict(t, start) == t > start
\* `if current_time >= start_time`
StartReached(t, start) == t >= start

\* The loop over transition_points.items(), in insertion order 0..n-1: the
\* last phase whose start time is reached wins; None when there is none.
RECURSIVE ScanPhases(_, _, _, _)
ScanPhases(tp, n, t, i) ==
    IF i = n THEN None
    ELSE LET rest == ScanPhases(tp, n, t, i + 1)
         IN  IF rest # None THEN rest
             ELSE IF StartReached(t, tp[i]) THEN i ELSE None

CurrentPhase(durs, t) == ScanPhases(TransitionPoints(durs), Len(durs), t, 0)

\* Mutants of the cursor guard: any change of phase, and "not behind".
PhaseAdvances_Any(cur, last) == cur # None /\ cur # last
PhaseAdvances_Again(cur, last) == cur # None /\ cur >= last
\* `current_phase is not None and current_phase > track_phase.last_phase`
PhaseAdvances(cur, last) == cur # None /\ cur > last

\* The body of track_phase(current_time).
TrackUpdate(t) ==
    /\ LET last == IF last_phase = NoAttr THEN -1 ELSE last_phase
           cur  == CurrentPhase(phases, t)
       IN  /\ IF PhaseAdvances(cur, last)
                 THEN /\ last_phase' = cur
                      /\ fired' = [fired EXCEPT ![cur] = @ + 1]
                 ELSE /\ last_phase' = last
                      /\ fired' = fired
           /\ landed' = IF cur = None THEN landed ELSE landed \cup {cur}
           /\ prev_phase' = last
    /\ last_time' = t
    /\ increasing' = (increasing /\ (ncalls = 0 \/ t >= last_time))
    /\ ncalls' = ncalls + 1
    /\ UNCHANGED phases

\* track_phase(current_time), called on its own.
TrackPhase(t) ==
    /\ ncalls < MaxTrackCalls
    /\ TrackUpdate(t)
    /\ UNCHANGED <<allocVars, pwmVars, mainVars, extVars>>

PhaseInitOf(cfgs) ==
    /\ phases \in cfgs
    /\ last_phase = NoAttr
    /\ fired = [p \in 0 .. Len(phases) - 1 |-> 0]
    /\ landed = {}
    /\ last_time = 0
    /\ prev_phase = NoAttr
    /\ ncalls = 0
    /\ increasing = TRUE

PhaseNext == \E t \in TrackTimes : TrackPhase(t)

(***************************************************************************)
(*                THRUSTER ALLOCATOR (LinearQuadraticRegulator)            *)
(* Fixed point: duty cycles, the decay factor and the force components of  *)
(* signals are in thousandths; lever arms are integers and the torque      *)
(* component is in the matching unit (force-thousandth x lever-arm unit),  *)
(* which scales the third row of H and leaves its pseudo-inverse solution  *)
(* unchanged.  Quotients are rounded down to a thousandth.                 *)
(***************************************************************************)

Thr == 1 .. 8

\* self.valve_time = 0.007 s, in milliseconds
valve_time == 7
\* pwm_freq = 5 Hz (constructor default, used by class_init)
pwm_freq == 5
\* self.min_duty_cycle = self.valve_time * self.pwm_freq = 0.035
min_duty_cycle == valve_time * pwm_freq

\* Thruster direction cosines V1, V2 of _make_H_with_decay.
V1 == <<-1, -1, 0, 0, 1, 1, 0, 0>>
V2 == <<0, 0, 1, 1, 0, 0, -1, -1>>

\* Thruster geometries (lever arms d, half maximum forces h = thruster_F/2):
\* a symmetric one with equal forces, one with unequal arms and forces, and
\* one whose thrusters all turn the platform the same way.
Geometries ==
    { [d |-> <<1, -1, 1, -1, 1, -1, 1, -1>>, h |-> <<1, 1, 1, 1, 1, 1, 1, 1>>],
      [d |-> <<2, -1, 1, -2, 2, -1, 1, -2>>, h |-> <<1, 1, 2, 2, 1, 1, 2, 2>>],
      [d |-> <<1, 2, 1, 2, 1, 2, 1, 2>>, h |-> <<1, 1, 1, 1, 1, 1, 1, 1>>] }

\* Desired body-frame signals <<Fx, Fy, torque>> handed to allocation: zero,
\* below, at and just above the minimum on-time, mid-range, saturating, and
\* pure torque.
BodySignals ==
    { <<0, 0, 0>>, <<100, 0, 0>>, <<136, 0, 0>>, <<140, 0, 0>>,
      <<6000, 100, 0>>,
      <<1000, 0, 0>>, <<-2000, 1000, 0>>, <<6000, 0, 0>>, <<0, 0, 4000>>,
      <<6000, -6000, -4000>> }

\* Results the bounded optimizer (scipy minimize, L-BFGS-B with bounds
\* (0, 1) per thruster) may return: points of the box [0,1]^8.
OptimizerResults ==
    { [i \in Thr |-> 0],
      <<20, 0, 35, 0, 500, 0, 1000, 0>>,
      <<1000, 1000, 1000, 1000, 1000, 1000, 1000, 1000>>,
      <<34, 34, 0, 0, 0, 0, 0, 1>> }

\* H1 @ diag(thruster_F / 2), without the decay factor: row k, column i.
HRow(g, k, i) ==
    (CASE k = 1 -> V1[i] [] k = 2 -> V2[i] [] OTHER -> g.d[i]) * g.h[i]

RECURSIVE SumOver(_, _)
SumOver(f, n) == IF n = 0 THEN 0 ELSE SumOver(f, n - 1) + f[n]

\* (B B^T)[k][l] for B = H1 @ diag(thruster_F / 2)
Gram(g, k, l) == SumOver([i \in Thr |-> HRow(g, k, i) * HRow(g, l, i)], 8)

Det3(m) ==
      m[1][1] * (m[2][2] * m[3][3] - m[2][3] * m[3][2])
    - m[1][2] * (m[2][1] * m[3][3] - m[2][3] * m[3][1])
    + m[1][3] * (m[2][1] * m[3][2] - m[2][2] * m[3][1])

\* The adjugate of a symmetric 3x3 matrix (its cofactor matrix).
Adj3(m) ==
    LET c(a, b, cc, dd) == m[a][b] * m[cc][dd]
    IN  << << c(2,2,3,3) - c(2,3,3,2), c(1,3,3,2) - c(1,2,3,3), c(1,2,2,3) - c(1,3,2,2) >>,
           << c(2,3,3,1) - c(2,1,3,3), c(1,1,3,3) - c(1,3,3,1), c(1,3,2,1) - c(1,1,2,3) >>,
           << c(2,1,3,2) - c(2,2,3,1), c(1,2,3,1) - c(1,1,3,2), c(1,1,2,2) - c(1,2,2,1) >> >>

\* For each geometry, once: B = H1 @ diag(thruster_F / 2) as rows, the
\* determinant of B B^T and the numerators B^T adj(B B^T) of its
\* pseudo-inverse.
GeomTable ==
    [g \in Geometries |->
        LET G   == [k \in 1 .. 3 |-> [l \in 1 .. 3 |-> Gram(g, k, l)]]
            adj == Adj3(G)
        IN  [B   |-> [k \in 1 .. 3 |-> [i \in Thr |-> HRow(g, k, i)]],
             det |-> Det3(G),
             num |-> [i \in Thr |-> [l \in 1 .. 3 |->
                         HRow(g, 1, i) * adj[1][l] + HRow(g, 2, i) * adj[2][l]
                           + HRow(g, 3, i) * adj[3][l]]]]]

\* np.linalg.pinv(H) @ u_desired for H = B * decay of full row rank:
\* B^T (B B^T)^-1 u / decay, entry by entry.
PinvSolve(g, decay, u) ==
    LET t == GeomTable[g]
    IN  [i \in Thr |->
           (((t.num[i][1] * u[1] + t.num[i][2] * u[2] + t.num[i][3] * u[3])
               \div t.det) * 1000) \div decay]

\* np.clip(duty_cycles, 0, 1.0)
Clip(x) == IF x < 0 THEN 0 ELSE IF x > 1000 THEN 1000 ELSE x

\* Mutant of the minimum on-time floor: none.
MinOnTime_Off(x) == x
\* duty_cycles[duty_cycles < self.min_duty_cycle] = 0.0
MinOnTime(x) == IF x < min_duty_cycle THEN 0 ELSE x

\* optimize_duty_cycle: `if 0 < duty_cycles[i] < self.min_duty_cycle`
MinOnTimeIter(x) == IF 0 < x /\ x < min_duty_cycle THEN 0 ELSE x

\* Mutant of the decay law: the sum instead of the mean, and no lower limit.
CalcDecay_NoFloor(duty) ==
    LET active == Cardinality({ i \in Thr : duty[i] > 0 })
    IN  IF active = 0 THEN 1000
        ELSE 1000 - (150 * SumOver(duty, 8)) \div 1000
\* _calculate_thrust_decay: 1.0 with no active thruster, else
\* max(0.8, 1.0 - 0.15 * mean duty of the active thrusters)
CalcDecay(duty) ==
    LET active == Cardinality({ i \in Thr : duty[i] > 0 })
        raw    == 1000 - (150 * SumOver(duty, 8)) \div (1000 * active)
    IN  IF active = 0 THEN 1000 ELSE IF raw < 800 THEN 800 ELSE raw

\* _make_H_with_decay(decay) @ duty_cycles
Achievable(g, decay, duty) ==
    LET B == GeomTable[g].B
    IN  [k \in 1 .. 3 |->
           (SumOver([i \in Thr |-> B[k][i] * duty[i]], 8) * decay) \div 1000]

\* The state change of optimize_duty_cycle_fast(u_desired) as
\* compute_duty_cycle calls it, which assigns the vector it returns to
\* self.dutyCycle; raw, duty and dec are its local values, each computed
\* once.
OptimizeFast(u) ==
    \E raw \in { PinvSolve(geom, current_decay_factor, u) } :
    \E duty \in { [i \in Thr |-> MinOnTime(Clip(raw[i]))] } :
    \E dec \in { CalcDecay(duty) } :
        /\ dutyCycle' = duty
        /\ current_decay_factor' = dec
        /\ saturatedControlSignalBodyFrame' = Achievable(geom, dec, duty)
        /\ alloc_decay_in' = current_decay_factor
        /\ alloc_raw' = raw
        /\ alloc_duty' = duty

\* compute_control_body_frame: stores the rotated signal (the rotation and
\* the gain are not modelled: the body-frame signal is the input).
ComputeControlBodyFrame(u) ==
    /\ controlSignalBodyFrame' = u
    /\ alloc_op' = "compute_control_body_frame"
    /\ UNCHANGED <<geom, dutyCycle, current_decay_factor,
                   saturatedControlSignalBodyFrame, alloc_error,
                   alloc_decay_in, alloc_raw, alloc_duty>>
    /\ UNCHANGED <<phaseVars, pwmVars, mainVars, extVars>>

\* Mutant of the failure: the outputs are reset before the error is raised.
AllocFailure_AfterReset ==
    /\ alloc_error' = TRUE
    /\ dutyCycle' = <<>>
    /\ current_decay_factor' = 1000
    /\ saturatedControlSignalBodyFrame' = <<>>
    /\ UNCHANGED <<alloc_decay_in, alloc_raw, alloc_duty>>
\* `raise ValueError("Control signal in body frame not available")`, the
\* first statement that has an effect.
AllocFailure ==
    /\ alloc_error' = TRUE
    /\ UNCHANGED <<dutyCycle, current_decay_factor,
                   saturatedControlSignalBodyFrame, alloc_decay_in, alloc_raw,
                   alloc_duty>>

\* compute_duty_cycle(): ValueError without a body-frame signal.
ComputeDutyCycle ==
    /\ alloc_op' = "compute_duty_cycle"
    /\ IF controlSignalBodyFrame = <<>>
          THEN AllocFailure
          ELSE /\ alloc_error' = FALSE
               /\ OptimizeFast(controlSignalBodyFrame)
    /\ UNCHANGED <<geom, controlSignalBodyFrame>>
    /\ UNCHANGED <<phaseVars, pwmVars, mainVars, extVars>>

\* compute_control(state, target): body-frame signal, then allocation.
ComputeControl(u) ==
    /\ controlSignalBodyFrame' = u
    /\ alloc_op' = "compute_control"
    /\ alloc_error' = FALSE
    /\ OptimizeFast(u)
    /\ UNCHANGED geom
    /\ UNCHANGED <<phaseVars, pwmVars, mainVars, extVars>>

\* optimize_duty_cycle(u_desired): the iterative variant; x is result.x.
\* The duty vector is returned; self.dutyCycle is not assigned.
OptimizeDutyCycle(x) ==
    \E duty \in { [i \in Thr |-> MinOnTimeIter(x[i])] } :
    \E dec \in { CalcDecay(duty) } :
        /\ alloc_duty' = duty
        /\ UNCHANGED dutyCycle
        /\ current_decay_factor' = dec
        /\ saturatedControlSignalBodyFrame' = Achievable(geom, dec, duty)
        /\ alloc_decay_in' = 1000
        /\ alloc_raw' = x
        /\ alloc_error' = FALSE
        /\ alloc_op' = "optimize_duty_cycle"
        /\ UNCHANGED <<geom, controlSignalBodyFrame>>
        /\ UNCHANGED <<phaseVars, pwmVars, mainVars, extVars>>

AllocInitOf(gs) ==
    /\ geom \in gs
    /\ controlSignalBodyFrame = <<>>
    /\ dutyCycle = <<>>
    /\ current_decay_factor = 1000
    /\ saturatedControlSignalBodyFrame = <<>>
    /\ alloc_error = FALSE
    /\ alloc_op = "none"
    /\ alloc_decay_in = 1000
    /\ alloc_raw = <<>>
    /\ alloc_duty = <<>>

AllocNext ==
    \/ \E u \in BodySignals : ComputeControlBodyFrame(u)
    \/ ComputeDutyCycle
    \/ \E u \in BodySignals : ComputeControl(u)
    \/ \E x \in OptimizerResults : OptimizeDutyCycle(x)

(***************************************************************************)
(*                        PWM ACTUATOR (Thrusters)                         *)
(* One actuator.  Three flows of control touch it: the main process        *)
(* calling its methods, the signal handler _handle_exit that interrupts    *)
(* the main process between two of its steps, and the PWM worker process.  *)
(* Every access to a shared (manager / multiprocessing) object is one      *)
(* step.  Time and duty are counted in ticks: PeriodTicks ticks are one    *)
(* PWM period, so a duty of d ticks is the fraction d / PeriodTicks.       *)
(***************************************************************************)

\* Channels modelled (NUM_THRUSTERS is 8 in the code).
NumChannels == 2
\* Clock resolution: ticks per PWM period.
PeriodTicks == 2
\* Signals (SIGINT / SIGTERM) delivered to the main process in one run.
MaxSignals == 1

\* Calls of set_duty_cycle / set_all_duty_cycles followed in one run.
MaxSetCalls == 2
\* GPIO writes that fail in one run.
MaxGpioFaults == 1

Ch == 1 .. NumChannels

\* Values handed to the setters: below 0, in range, above 1.
DutyInputs == { -1, 1, PeriodTicks + 1 }

\* Vectors handed to set_all_duty_cycles: all below range, a ramp, all above.
SetAllInputs ==
    { [i \in Ch |-> -1], [i \in Ch |-> i], [i \in Ch |-> PeriodTicks + 1] }

\* Mutant of the clamp: the value is stored as it comes.
Clamp_None(v) == v
\* max(0.0, min(1.0, duty_cycle))
Clamp(v) == IF v < 0 THEN 0 ELSE IF v > PeriodTicks THEN PeriodTicks ELSE v

\* get_state(thruster_index)
get_state(i) == current_states[i]

\* The main process runs its own code only while no handler interrupts it.
MainRuns == hpc = "none"

\* Mutant of the setter's target: the value also lands in the applied vector.
WriteDuty_Direct(req, duty, i, v) ==
    [requested |-> [req EXCEPT ![i] = v], applied |-> [duty EXCEPT ![i] = v]]
\* self.requested_duty_cycles[i] = clamped value: the vectors after the write
WriteDuty(req, duty, i, v) ==
    [requested |-> [req EXCEPT ![i] = v], applied |-> duty]

\* set_duty_cycle(thruster_index, duty_cycle); an index outside 1..N raises
\* ValueError and changes nothing.
SetDutyCycle(i, v) ==
    /\ MainRuns /\ mpc = "idle"
    /\ nsets < MaxSetCalls
    /\ nsets' = nsets + 1
    /\ IF i \in Ch
          THEN /\ duty_cycle_lock = "free"
               /\ LET w == WriteDuty(requested_duty_cycles, duty_cycles, i,
                                     Clamp(v))
                  IN  /\ requested_duty_cycles' = w.requested
                      /\ duty_cycles' = w.applied
               /\ duty_cycle_updated' = TRUE
               /\ single_used' = TRUE
          ELSE UNCHANGED <<requested_duty_cycles, duty_cycles,
                           duty_cycle_updated, single_used>>
    /\ UNCHANGED <<is_experiment, nfaults, running, current_states, duty_cycle_lock,
                   gpio, process, pwmWorker, mpc, mi, marg, hpc, nsignals,
                   handler_did, stop_returned, written>>
    /\ UNCHANGED <<phaseVars, allocVars, mainVars, extVars>>

\* set_all_duty_cycles(duty_cycles): `with self.duty_cycle_lock:`
SetAllBegin(vec) ==
    /\ MainRuns /\ mpc = "idle"
    /\ nsets < MaxSetCalls
    /\ nsets' = nsets + 1
    /\ duty_cycle_lock = "free"
    /\ duty_cycle_lock' = "main"
    /\ mpc' = "setall" /\ mi' = 1 /\ marg' = vec
    /\ written' = written \cup { [i \in Ch |-> Clamp(vec[i])] }
    /\ UNCHANGED <<is_experiment, nfaults, running, duty_cycles, requested_duty_cycles,
                   current_states, duty_cycle_updated, gpio, process,
                   pwmWorker, hpc, nsignals, handler_did, stop_returned,
                   single_used>>
    /\ UNCHANGED <<phaseVars, allocVars, mainVars, extVars>>

\* set_all_duty_cycles: one entry of the loop; after the last one the dirty
\* flag is set and the lock released.
SetAllStep ==
    /\ MainRuns /\ mpc = "setall"
    /\ LET w == WriteDuty(requested_duty_cycles, duty_cycles, mi,
                          Clamp(marg[mi]))
       IN  /\ requested_duty_cycles' = w.requested
           /\ duty_cycles' = w.applied
    /\ IF mi = NumChannels
          THEN /\ duty_cycle_updated' = TRUE
               /\ duty_cycle_lock' = "free"
               /\ mpc' = "idle" /\ mi' = 0 /\ marg' = <<>>
          ELSE /\ mi' = mi + 1
               /\ UNCHANGED <<duty_cycle_updated, duty_cycle_lock, mpc, marg>>
    /\ UNCHANGED <<is_experiment, nfaults, running, current_states, gpio, process,
                   pwmWorker, hpc, nsignals, handler_did, stop_returned,
                   written, nsets, single_used>>
    /\ UNCHANGED <<phaseVars, allocVars, mainVars, extVars>>

\* start(): sets the running flag and starts the worker process.  (A second
\* start() of the same actuator is not followed here.)
Start ==
    /\ MainRuns /\ mpc = "idle"
    /\ process = "none"
    /\ running' = TRUE
    /\ process' = "alive"
    /\ wpc' = "check"
    /\ stop_returned' = FALSE
    /\ UNCHANGED <<is_experiment, nfaults, duty_cycles, requested_duty_cycles,
                   current_states, duty_cycle_updated, duty_cycle_lock, gpio,
                   wi, elapsed, period_duty, mpc, mi, marg, hpc, nsignals,
                   handler_did, written, single_used, nsets>>
    /\ UNCHANGED <<phaseVars, allocVars, mainVars, extVars>>

\* The outcomes of one GPIO.output call: it succeeds, or raises.
GpioOutcomes == IF nfaults < MaxGpioFaults THEN BOOLEAN ELSE {TRUE}
Faults(ok) == IF ok THEN nfaults ELSE nfaults + 1

\* ---- the PWM worker: _pwm_control_loop (experiment) and
\* ---- _simulate_pwm_control_loop (simulation)

WorkerFrame == <<is_experiment, pwmMain>>

\* `while self.running.value:` at the top of a period.  When the flag is
\* down the simulation loop returns, the experiment loop goes to its
\* `finally:` clean-up.
WorkerCheck ==
    /\ process = "alive" /\ wpc = "check"
    /\ IF running
          THEN /\ wpc' = "lock"
               /\ UNCHANGED <<process, wi>>
          ELSE IF is_experiment
                  THEN /\ wpc' = "finally" /\ wi' = 1
                       /\ UNCHANGED process
                  ELSE /\ wpc' = "done" /\ process' = "exited"
                       /\ UNCHANGED wi
    /\ UNCHANGED <<running, duty_cycles, requested_duty_cycles, current_states,
                   duty_cycle_updated, duty_cycle_lock, gpio, elapsed,
                   period_duty, WorkerFrame, nfaults>>
    /\ UNCHANGED <<phaseVars, allocVars, mainVars, extVars>>

\* Mutant of the worker's lock acquisition: it does not wait for the lock.
WorkerCanLock_Always(l) == TRUE
\* `with self.duty_cycle_lock:` blocks until the lock is free
WorkerCanLock(l) == l = "free"

\* `with self.duty_cycle_lock: if self.duty_cycle_updated.value:` without a
\* pending update the lock is released at once and the period starts.
WorkerLock ==
    /\ process = "alive" /\ wpc = "lock"
    /\ WorkerCanLock(duty_cycle_lock)
    /\ IF duty_cycle_updated
          THEN /\ duty_cycle_lock' = "worker"
               /\ wpc' = "copy" /\ wi' = 1
               /\ UNCHANGED period_duty
          ELSE /\ wpc' = "on" /\ wi' = 1
               /\ period_duty' = duty_cycles
               /\ UNCHANGED duty_cycle_lock
    /\ UNCHANGED <<running, duty_cycles, requested_duty_cycles, current_states,
                   duty_cycle_updated, gpio, process, elapsed, WorkerFrame, nfaults>>
    /\ UNCHANGED <<phaseVars, allocVars, mainVars, extVars>>

\* `self.duty_cycles[i] = self.requested_duty_cycles[i]`, one entry; after
\* the last one the dirty flag is cleared and the lock released.
WorkerCopy ==
    /\ process = "alive" /\ wpc = "copy"
    /\ duty_cycles' = [duty_cycles EXCEPT ![wi] = requested_duty_cycles[wi]]
    /\ IF wi = NumChannels
          THEN /\ duty_cycle_updated' = FALSE
               /\ duty_cycle_lock' = "free"
               /\ wpc' = "on" /\ wi' = 1
               /\ period_duty' = duty_cycles'
          ELSE /\ wi' = wi + 1
               /\ UNCHANGED <<duty_cycle_updated, duty_cycle_lock, wpc,
                              period_duty>>
    /\ UNCHANGED <<running, requested_duty_cycles, current_states, gpio,
                   process, elapsed, WorkerFrame, nfaults>>
    /\ UNCHANGED <<phaseVars, allocVars, mainVars, extVars>>

\* Mutant of the turn-ON result: the failure of the write is ignored.
OnResult_IgnoreFailure(ok, duty) == duty > 0
\* The state the experiment loop gives a channel in the turn-ON pass: ON
\* after GPIO.output(pin, HIGH), OFF after GPIO.output(pin, LOW) and in the
\* `except Exception:` branch.
OnResult(ok, duty) == ok /\ duty > 0

\* The turn-ON pass, channel wi.  Simulation: the state follows duty > 0.
\* Experiment: only while running; a failing GPIO write marks the channel
\* OFF.
WorkerOn ==
    /\ process = "alive" /\ wpc = "on"
    /\ IF ~is_experiment
          THEN /\ current_states' =
                    [current_states EXCEPT ![wi] = duty_cycles[wi] > 0]
               /\ UNCHANGED <<gpio, nfaults>>
          ELSE IF running
                  THEN \E ok \in GpioOutcomes :
                         /\ current_states' = [current_states EXCEPT
                                ![wi] = OnResult(ok, duty_cycles[wi])]
                         /\ gpio' = IF ok
                                       THEN [gpio EXCEPT
                                               ![wi] = duty_cycles[wi] > 0]
                                       ELSE gpio
                         /\ nfaults' = Faults(ok)
                  ELSE UNCHANGED <<current_states, gpio, nfaults>>
    /\ IF wi = NumChannels
          THEN wpc' = "inner" /\ wi' = 1 /\ elapsed' = 0
          ELSE wi' = wi + 1 /\ UNCHANGED <<wpc, elapsed>>
    /\ UNCHANGED <<running, duty_cycles, requested_duty_cycles,
                   duty_cycle_updated, duty_cycle_lock, process, period_duty,
                   WorkerFrame>>
    /\ UNCHANGED <<phaseVars, allocVars, mainVars, extVars>>

\* `while elapsed_time < self.PERIOD and self.running.value:` then the clock
\* is read: it has not gone back.  When the loop ends the worker goes to the
\* top of the next period (the experiment loop's `if not running: break`
\* and the sleep of the remainder lead there too).
WorkerInner ==
    /\ process = "alive" /\ wpc = "inner"
    /\ IF elapsed < PeriodTicks /\ running
          THEN /\ \E now \in elapsed .. PeriodTicks : elapsed' = now
               /\ wpc' = "off" /\ wi' = 1
          ELSE /\ wpc' = "check"
               /\ UNCHANGED <<elapsed, wi>>
    /\ UNCHANGED <<running, duty_cycles, requested_duty_cycles, current_states,
                   duty_cycle_updated, duty_cycle_lock, gpio, process,
                   period_duty, WorkerFrame, nfaults>>
    /\ UNCHANGED <<phaseVars, allocVars, mainVars, extVars>>

\* Mutant of the ON-duration: twice the duty.
OnDuration_Double(i) == 2 * duty_cycles[i]
\* on_duration = self.duty_cycles[i] * self.PERIOD
OnDuration(i) == duty_cycles[i]

\* The turn-OFF pass, channel wi: OFF once elapsed >= on_duration.  In the
\* experiment loop only while running; a failing write marks it OFF too.
WorkerOff ==
    /\ process = "alive" /\ wpc = "off"
    /\ IF current_states[wi] /\ elapsed >= OnDuration(wi)
            /\ (is_experiment => running)
          THEN /\ current_states' = [current_states EXCEPT ![wi] = FALSE]
               /\ IF is_experiment
                     THEN \E ok \in GpioOutcomes :
                            /\ gpio' = IF ok THEN [gpio EXCEPT ![wi] = FALSE]
                                             ELSE gpio
                            /\ nfaults' = Faults(ok)
                     ELSE UNCHANGED <<gpio, nfaults>>
          ELSE UNCHANGED <<current_states, gpio, nfaults>>
    /\ IF wi = NumChannels
          THEN wpc' = "inner" /\ wi' = 1
          ELSE wi' = wi + 1 /\ UNCHANGED wpc
    /\ UNCHANGED <<running, duty_cycles, requested_duty_cycles,
                   duty_cycle_updated, duty_cycle_lock, process, elapsed,
                   period_duty, WorkerFrame>>
    /\ UNCHANGED <<phaseVars, allocVars, mainVars, extVars>>

\* The experiment loop's `finally:`; channel wi is driven LOW and marked
\* OFF; when the write fails the state is left as it is (`except: pass`).
WorkerFinally ==
    /\ process = "alive" /\ wpc = "finally"
    /\ \E ok \in GpioOutcomes :
         /\ nfaults' = Faults(ok)
         /\ IF ok THEN /\ gpio' = [gpio EXCEPT ![wi] = FALSE]
                       /\ current_states' =
                             [current_states EXCEPT ![wi] = FALSE]
                  ELSE UNCHANGED <<gpio, current_states>>
    /\ IF wi = NumChannels
          THEN wpc' = "done" /\ process' = "exited" /\ wi' = 1
          ELSE wi' = wi + 1 /\ UNCHANGED <<wpc, process>>
    /\ UNCHANGED <<running, duty_cycles, requested_duty_cycles,
                   duty_cycle_updated, duty_cycle_lock, elapsed, period_duty,
                   WorkerFrame>>
    /\ UNCHANGED <<phaseVars, allocVars, mainVars, extVars>>

\* ---- stop() and the signal handler _handle_exit.  stop() runs in the main
\* ---- process, called by the program (ctx "main") or from inside the signal
\* ---- handler (ctx "handler"), which interrupts whatever the main process
\* ---- was doing and lets it go on only when the handler has returned.

StopPc(ctx) == IF ctx = "handler" THEN hpc ELSE mpc

\* What the handler has done besides writing the flag.
Did(ctx, what) == IF ctx = "handler" THEN handler_did \cup what ELSE handler_did

\* The return of stop() in context ctx.
StopMove(ctx, to) ==
    IF ctx = "handler" THEN hpc' = to /\ UNCHANGED mpc
                       ELSE mpc' = to /\ UNCHANGED hpc

\* A SIGINT / SIGTERM reaches the main process: _handle_exit sets the
\* running flag to False and then, in the main process, calls self.stop().
Signal ==
    /\ hpc = "none" /\ nsignals < MaxSignals
    /\ nsignals' = nsignals + 1
    /\ running' = FALSE
    /\ hpc' = "stop_begin"
    /\ UNCHANGED <<is_experiment, nfaults, duty_cycles, requested_duty_cycles,
                   current_states, duty_cycle_updated, duty_cycle_lock, gpio,
                   process, pwmWorker, mpc, mi, marg, handler_did,
                   stop_returned, written, nsets, single_used>>
    /\ UNCHANGED <<phaseVars, allocVars, mainVars, extVars>>

\* The same handler in the worker process (a signal sent to the process
\* group, handlers inherited on fork): it only sets the flag there.
SignalInWorker ==
    /\ process = "alive" /\ nsignals < MaxSignals
    /\ nsignals' = nsignals + 1
    /\ running' = FALSE
    /\ UNCHANGED <<is_experiment, nfaults, duty_cycles, requested_duty_cycles,
                   current_states, duty_cycle_updated, duty_cycle_lock, gpio,
                   process, pwmWorker, mpc, mi, marg, hpc, handler_did,
                   stop_returned, written, nsets, single_used>>
    /\ UNCHANGED <<phaseVars, allocVars, mainVars, extVars>>

\* stop(): the flag goes down; with a live worker stop() sleeps 0.5 s and
\* then joins it.
StopBegin(ctx) ==
    /\ \/ ctx = "main" /\ MainRuns /\ mpc = "idle"
       \/ ctx = "handler" /\ hpc = "stop_begin"
    /\ running' = FALSE
    /\ IF process = "alive"
          THEN /\ StopMove(ctx, "stop_join")
               /\ handler_did' = Did(ctx, {"sleep"})
          ELSE /\ StopMove(ctx, "stop_gpio")
               /\ UNCHANGED handler_did
    /\ UNCHANGED <<is_experiment, nfaults, duty_cycles, requested_duty_cycles,
                   current_states, duty_cycle_updated, duty_cycle_lock, gpio,
                   process, pwmWorker, mi, marg, nsignals, stop_returned,
                   written, nsets, single_used>>
    /\ UNCHANGED <<phaseVars, allocVars, mainVars, extVars>>

\* self.process.join(timeout=1.0) returns because the worker has exited.
StopJoin(ctx) ==
    /\ StopPc(ctx) = "stop_join" /\ (ctx = "main" => MainRuns)
    /\ process # "alive"
    /\ StopMove(ctx, "stop_gpio")
    /\ handler_did' = Did(ctx, {"join"})
    /\ UNCHANGED <<is_experiment, nfaults, pwmShared, pwmWorker, mi, marg, nsignals,
                   stop_returned, written, nsets, single_used>>
    /\ UNCHANGED <<phaseVars, allocVars, mainVars, extVars>>

\* A worker that cannot get on: it waits for the lock the interrupted main
\* process holds.  (The grace period of 1.5 s is long against the period of
\* 0.2 s: a worker that can run has left its loop before the join ends.)
WorkerStuck == wpc = "lock" /\ duty_cycle_lock = "main"

\* The join timed out: self.process.terminate() sends SIGTERM.  A forked
\* worker has inherited _handle_exit, which only sets the flag; a worker
\* with the default disposition dies where it is.
StopTerminate(ctx) ==
    /\ StopPc(ctx) = "stop_join" /\ (ctx = "main" => MainRuns)
    /\ process = "alive" /\ WorkerStuck
    /\ \E dies \in BOOLEAN :
         IF dies THEN /\ process' = "killed" /\ wpc' = "done"
                      /\ UNCHANGED running
                 ELSE /\ running' = FALSE
                      /\ UNCHANGED <<process, wpc>>
    /\ StopMove(ctx, "stop_gpio")
    /\ handler_did' = Did(ctx, {"join", "terminate"})
    /\ UNCHANGED <<is_experiment, nfaults, duty_cycles, requested_duty_cycles,
                   current_states, duty_cycle_updated, duty_cycle_lock, gpio,
                   wi, elapsed, period_duty, mi, marg, nsignals,
                   stop_returned, written, nsets, single_used>>
    /\ UNCHANGED <<phaseVars, allocVars, mainVars, extVars>>

\* The end of stop(): in experiment mode every pin is driven LOW (a failing
\* write is ignored) and GPIO.cleanup() runs; then stop() returns.
StopFinish(ctx) ==
    /\ StopPc(ctx) = "stop_gpio" /\ (ctx = "main" => MainRuns)
    /\ IF is_experiment
          THEN /\ \E failed \in SUBSET Ch :
                    /\ nfaults + Cardinality(failed) <= MaxGpioFaults
                    /\ nfaults' = nfaults + Cardinality(failed)
                    /\ gpio' = [i \in Ch |-> IF i \in failed THEN gpio[i]
                                                             ELSE FALSE]
               /\ handler_did' = Did(ctx, {"gpio"})
          ELSE UNCHANGED <<gpio, handler_did, nfaults>>
    /\ stop_returned' = TRUE
    /\ StopMove(ctx, IF ctx = "handler" THEN "none" ELSE "idle")
    /\ UNCHANGED <<is_experiment, running, duty_cycles, requested_duty_cycles,
                   current_states, duty_cycle_updated, duty_cycle_lock,
                   process, pwmWorker, mi, marg, nsignals, written, nsets,
                   single_used>>
    /\ UNCHANGED <<phaseVars, allocVars, mainVars, extVars>>

\* Thrusters.__init__
PwmInitOf(modes) ==
    /\ is_experiment \in modes
    /\ running = FALSE
    /\ duty_cycles = [i \in Ch |-> 0]
    /\ requested_duty_cycles = [i \in Ch |-> 0]
    /\ current_states = [i \in Ch |-> FALSE]
    /\ duty_cycle_updated = FALSE
    /\ duty_cycle_lock = "free"
    /\ gpio = [i \in Ch |-> FALSE]
    /\ process = "none"
    /\ wpc = "none" /\ wi = 1 /\ elapsed = 0
    /\ mpc = "idle" /\ mi = 0 /\ marg = <<>>
    /\ hpc = "none" /\ nsignals = 0
    /\ handler_did = {}
    /\ stop_returned = FALSE
    /\ written = {}
    /\ single_used = FALSE
    /\ period_duty = [i \in Ch |-> 0]
    /\ nsets = 0 /\ nfaults = 0

PwmNext ==
    \/ \E i \in 0 .. NumChannels, v \in DutyInputs : SetDutyCycle(i, v)
    \/ \E vec \in SetAllInputs : SetAllBegin(vec)
    \/ SetAllStep
    \/ Start
    \/ WorkerCheck
    \/ WorkerLock
    \/ WorkerCopy
    \/ WorkerOn
    \/ WorkerInner
    \/ WorkerOff
    \/ WorkerFinally
    \/ Signal
    \/ SignalInWorker
    \/ \E ctx \in {"main", "handler"} : StopBegin(ctx)
    \/ \E ctx \in {"main", "handler"} : StopJoin(ctx)
    \/ \E ctx \in {"main", "handler"} : StopTerminate(ctx)
    \/ \E ctx \in {"main", "handler"} : StopFinish(ctx)

\* The actuator driven by calls of the program only: the setters, start(),
\* the worker and stop(), with no signal delivered.
PwmRunNext ==
    \/ \E i \in 0 .. NumChannels, v \in DutyInputs : SetDutyCycle(i, v)
    \/ \E vec \in SetAllInputs : SetAllBegin(vec)
    \/ SetAllStep
    \/ Start
    \/ WorkerCheck
    \/ WorkerLock
    \/ WorkerCopy
    \/ WorkerOn
    \/ WorkerInner
    \/ WorkerOff
    \/ WorkerFinally
    \/ StopBegin("main")
    \/ StopJoin("main")
    \/ StopFinish("main")

(***************************************************************************)
(*                     MAIN: START-UP, LOOP, SHUTDOWN                      *)
(* main() of src/main/main.py.  Everything from the set-up to the export   *)
(* of the log sits in one `try:`; its handlers are `except                 *)
(* KeyboardInterrupt:` and `finally:`, and both only print.  The three     *)
(* actuators are thrustersChaser, thrustersTarget, thrustersObstacle, in   *)
(* the order main() constructs, starts and stops them.                     *)
(***************************************************************************)

\* Loop iterations followed in one run.
MaxTicks == 2
\* Exceptions raised by a step of main() in one run.
MaxRaises == 1
\* SIGINTs delivered to the main process in one run.
MaxSigint == 1

Actuators == 1 .. 3

\* The positions inside the `try:` body.
StartupPcs  == {"setup", "wait_data", "construct", "start"}
LoopPcs     == {"fetch", "check_duration", "control", "log", "timing"}
ShutdownPcs == {"stop_sensors", "pucks_off", "stop_thrusters", "write_to_npy"}
TryBody     == StartupPcs \cup LoopPcs \cup ShutdownPcs

ValidPlatform == PLATFORM \in {1, 2}

MainFrame == <<IS_EXPERIMENT, PLATFORM, nraised, nsigint>>

\* Lines 64-109: parameters, phases, class_init (which creates the data
\* container) and, in an experiment, set_platform_configuration, which
\* starts the sensor pipelines of the platform.
MainSetup ==
    /\ main_pc = "setup"
    /\ dataContainer' = "buffering"
    /\ sensors' = IF IS_EXPERIMENT THEN "running" ELSE sensors
    /\ main_pc' = "wait_data"
    /\ UNCHANGED <<mk, thrusters, sigint_handler, raised, nticks, MainFrame>>
    /\ UNCHANGED <<phaseVars, allocVars, pwmVars, extVars>>

\* Lines 111-160: the wait for valid data.  In an experiment with a valid
\* platform the data is valid or the loop sleeps and tries again; otherwise
\* the loop is left at once.
MainWaitData ==
    /\ main_pc = "wait_data"
    /\ \E valid \in (IF IS_EXPERIMENT /\ ValidPlatform THEN BOOLEAN
                                                       ELSE {TRUE}) :
         main_pc' = IF valid THEN "construct" ELSE "wait_data"
    /\ mk' = 1
    /\ UNCHANGED <<sensors, thrusters, sigint_handler, dataContainer, raised,
                   nticks, MainFrame>>
    /\ UNCHANGED <<phaseVars, allocVars, pwmVars, extVars>>

\* Lines 164-170: Thrusters(...) for actuator mk; its __init__ registers its
\* own _handle_exit for SIGINT and SIGTERM, replacing the one before.
MainConstruct ==
    /\ main_pc = "construct"
    /\ thrusters' = [thrusters EXCEPT ![mk] = "constructed"]
    /\ sigint_handler' = mk
    /\ IF mk = 3 THEN main_pc' = "start" /\ mk' = 1
                 ELSE mk' = mk + 1 /\ UNCHANGED main_pc
    /\ UNCHANGED <<sensors, dataContainer, raised, nticks, MainFrame>>
    /\ UNCHANGED <<phaseVars, allocVars, pwmVars, extVars>>

\* Lines 172-193: the start time, then start() of actuator mk.
MainStart ==
    /\ main_pc = "start"
    /\ thrusters' = [thrusters EXCEPT ![mk] = "running"]
    /\ IF mk = 3 THEN main_pc' = "fetch" /\ mk' = 1
                 ELSE mk' = mk + 1 /\ UNCHANGED main_pc
    /\ UNCHANGED <<sensors, sigint_handler, dataContainer, raised, nticks,
                   MainFrame>>
    /\ UNCHANGED <<phaseVars, allocVars, pwmVars, extVars>>

\* Lines 212-299: data fetching; an experiment on an unknown platform
\* leaves the loop here.
MainFetch ==
    /\ main_pc = "fetch"
    /\ main_pc' = IF IS_EXPERIMENT /\ ~ValidPlatform THEN "stop_sensors"
                                                    ELSE "check_duration"
    /\ UNCHANGED <<mk, sensors, thrusters, sigint_handler, dataContainer,
                   raised, nticks, MainFrame>>
    /\ UNCHANGED <<phaseVars, allocVars, pwmVars, extVars>>

\* Lines 305-345: `if t_now >= DURATION: break`.  The duration is not
\* reached before the first iteration and is reached after MaxTicks.
MainCheckDuration ==
    /\ main_pc = "check_duration"
    /\ \E reached \in (IF nticks = 0 THEN {FALSE}
                       ELSE IF nticks >= MaxTicks THEN {TRUE}
                       ELSE BOOLEAN) :
         main_pc' = IF reached THEN "stop_sensors" ELSE "control"
    /\ UNCHANGED <<mk, sensors, thrusters, sigint_handler, dataContainer,
                   raised, nticks, MainFrame>>
    /\ UNCHANGED <<phaseVars, allocVars, pwmVars, extVars>>

\* Lines 347-588: phase tracking, control, allocation, set_all_duty_cycles
\* or the simulated models.
MainControl ==
    /\ main_pc = "control"
    /\ main_pc' = "log"
    /\ UNCHANGED <<mk, sensors, thrusters, sigint_handler, dataContainer,
                   raised, nticks, MainFrame>>
    /\ UNCHANGED <<phaseVars, allocVars, pwmVars, extVars>>

\* Line 594: handle_data_logging appends one row to the data container.
MainLog ==
    /\ main_pc = "log"
    /\ main_pc' = "timing"
    /\ UNCHANGED <<mk, sensors, thrusters, sigint_handler, dataContainer,
                   raised, nticks, MainFrame>>
    /\ UNCHANGED <<phaseVars, allocVars, pwmVars, extVars>>

\* Line 600: handle_loop_timing, then the next iteration.
MainTiming ==
    /\ main_pc = "timing"
    /\ main_pc' = "fetch"
    /\ nticks' = nticks + 1
    /\ UNCHANGED <<mk, sensors, thrusters, sigint_handler, dataContainer,
                   raised, MainFrame>>
    /\ UNCHANGED <<phaseVars, allocVars, pwmVars, extVars>>

\* Lines 606-617: in an experiment the platform's stream and IMU are
\* stopped (platform 0 matches no branch); a simulation goes on to the
\* actuators.
MainStopSensors ==
    /\ main_pc = "stop_sensors"
    /\ IF IS_EXPERIMENT
          THEN /\ sensors' = IF ValidPlatform THEN "stopped" ELSE sensors
               /\ main_pc' = "pucks_off"
          ELSE /\ main_pc' = "stop_thrusters"
               /\ UNCHANGED sensors
    /\ mk' = 1
    /\ UNCHANGED <<thrusters, sigint_handler, dataContainer, raised, nticks,
                   MainFrame>>
    /\ UNCHANGED <<phaseVars, allocVars, pwmVars, extVars>>

\* Line 620: enable_disable_pucks(False)
MainPucksOff ==
    /\ main_pc = "pucks_off"
    /\ main_pc' = "stop_thrusters"
    /\ UNCHANGED <<mk, sensors, thrusters, sigint_handler, dataContainer,
                   raised, nticks, MainFrame>>
    /\ UNCHANGED <<phaseVars, allocVars, pwmVars, extVars>>

\* Lines 623-625: stop() of actuator mk.
MainStopThrusters ==
    /\ main_pc = "stop_thrusters"
    /\ thrusters' = [thrusters EXCEPT ![mk] = "stopped"]
    /\ IF mk = 3 THEN main_pc' = "write_to_npy" /\ mk' = 1
                 ELSE mk' = mk + 1 /\ UNCHANGED main_pc
    /\ UNCHANGED <<sensors, sigint_handler, dataContainer, raised, nticks,
                   MainFrame>>
    /\ UNCHANGED <<phaseVars, allocVars, pwmVars, extVars>>

\* Line 630: dataContainer.write_to_npy(), the end of the `try:` body.
MainWriteToNpy ==
    /\ main_pc = "write_to_npy"
    /\ dataContainer' = "written"
    /\ main_pc' = "finally"
    /\ UNCHANGED <<mk, sensors, thrusters, sigint_handler, raised, nticks,
                   MainFrame>>
    /\ UNCHANGED <<phaseVars, allocVars, pwmVars, extVars>>

\* The step main() is at raises an exception (a sensor read, a call with
\* the wrong arguments, a failing stop()): no `except` clause matches it,
\* control goes to `finally:`.
MainRaise ==
    /\ main_pc \in TryBody
    /\ nraised < MaxRaises
    /\ nraised' = nraised + 1
    /\ raised' = "Exception"
    /\ main_pc' = "finally"
    /\ UNCHANGED <<IS_EXPERIMENT, PLATFORM, mk, sensors, thrusters,
                   sigint_handler, dataContainer, nticks, nsigint>>
    /\ UNCHANGED <<phaseVars, allocVars, pwmVars, extVars>>

\* What stop() called from the handler does to the actuator that owns it.
HandlerStop(t, k) == [t EXCEPT ![k] = "stopped"]

\* SIGINT in the main process while it is in the `try:` body.  Before any
\* actuator exists Python raises KeyboardInterrupt.  Afterwards the handler
\* installed last runs: _handle_exit of one actuator, which stops that
\* actuator and returns, and main() goes on where it was.
MainSigint ==
    /\ main_pc \in TryBody
    /\ nsigint < MaxSigint
    /\ nsigint' = nsigint + 1
    /\ IF sigint_handler = 0
          THEN /\ raised' = "KeyboardInterrupt"
               /\ main_pc' = "except"
               /\ UNCHANGED thrusters
          ELSE /\ thrusters' = HandlerStop(thrusters, sigint_handler)
               /\ UNCHANGED <<raised, main_pc>>
    /\ UNCHANGED <<IS_EXPERIMENT, PLATFORM, mk, sensors, sigint_handler,
                   dataContainer, nticks, nraised>>
    /\ UNCHANGED <<phaseVars, allocVars, pwmVars, extVars>>

\* Lines 632-633: `except KeyboardInterrupt:` prints and goes on to
\* `finally:`.
MainExcept ==
    /\ main_pc = "except"
    /\ raised' = "None"
    /\ main_pc' = "finally"
    /\ UNCHANGED <<mk, sensors, thrusters, sigint_handler, dataContainer,
                   nticks, MainFrame>>
    /\ UNCHANGED <<phaseVars, allocVars, pwmVars, extVars>>

\* Lines 634-635: `finally:` prints; main() returns, or the exception in
\* flight leaves it.
MainFinally ==
    /\ main_pc = "finally"
    /\ main_pc' = "exited"
    /\ UNCHANGED <<mk, sensors, thrusters, sigint_handler, dataContainer,
                   raised, nticks, MainFrame>>
    /\ UNCHANGED <<phaseVars, allocVars, pwmVars, extVars>>

\* Lines 36-63: the state main() enters its `try:` with.
MainInitOf(modes, platforms) ==
    /\ IS_EXPERIMENT \in modes
    /\ PLATFORM \in platforms
    /\ main_pc = "setup" /\ mk = 1
    /\ sensors = "None"
    /\ thrusters = [k \in Actuators |-> "None"]
    /\ sigint_handler = 0
    /\ dataContainer = "None"
    /\ raised = "None"
    /\ nticks = 0 /\ nraised = 0 /\ nsigint = 0

MainNext ==
    \/ MainSetup
    \/ MainWaitData
    \/ MainConstruct
    \/ MainStart
    \/ MainFetch
    \/ MainCheckDuration
    \/ MainControl
    \/ MainLog
    \/ MainTiming
    \/ MainStopSensors
    \/ MainPucksOff
    \/ MainStopThrusters
    \/ MainWriteToNpy
    \/ MainRaise
    \/ MainSigint
    \/ MainExcept
    \/ MainFinally

(***************************************************************************)
(*                 ATTITUDE ERROR (compute_control)                        *)
(* Angles are in milliradians; np.pi is 3142 and 2 * np.pi twice that.     *)
(***************************************************************************)

\* np.pi, in milliradians
Pi == 3142
TwoPi == 2 * Pi

\* Yaw values of states and targets: multiples of pi, values next to them,
\* and the pair 3.0 / -3.0.
YawValues ==
    { -3 * Pi, -TwoPi, -Pi - 1, -Pi, -Pi + 1, -3000, -1, 0, 1, 1571, 3000,
      Pi - 1, Pi, Pi + 1, TwoPi, 3 * Pi }

\* Mutant of the wrap: the plain difference (`error = state - target`).
WrapAttitude_Plain(d) == d
\* (d + np.pi) % (2 * np.pi) - np.pi; % with a positive divisor is >= 0
WrapAttitude(d) == ((d + Pi) % TwoPi) - Pi

\* compute_control(state, target), lines 99-107: the attitude error.
ComputeAttitudeError(s, t) ==
    /\ yaw_state' = s
    /\ yaw_target' = t
    /\ error_attitude' = << WrapAttitude(s - t) >>
    /\ UNCHANGED <<phaseVars, allocVars, pwmVars, mainVars, imuVars, loopVars, poseVars, ctlVars, mirVars, rateVars, lateVars>>

YawInitOf(v) ==
    /\ yaw_state = v /\ yaw_target = v
    /\ error_attitude = <<>>

YawNext == \E s \in YawValues, t \in YawValues : ComputeAttitudeError(s, t)

(***************************************************************************)
(*                  INERTIAL READ LOOP (IMUProcessor)                      *)
(* One action is one iteration of the `while not self._stop_event.is_set()` *)
(* loop of _read_imu_data, which runs in a thread of its own.              *)
(***************************************************************************)

\* Loop iterations followed in one run.
MaxImuReads == 11

\* max_failures = 5
max_failures == 5

\* What self.sensor.getMotion6() does: six zeros, other data, or it raises.
ImuReads == {"zeros", "valid", "error"}

\* `if consecutive_failures >= max_failures:`
FailuresReached(n) == n >= max_failures

\* One iteration with the read `data`; ok1 tells whether the
\* _initialize_sensor() call of the all-zero branch returns (it re-raises
\* what Driver() raised).  An exception anywhere in the iteration goes to
\* `except Exception`, which calls _initialize_sensor() once more, whatever
\* the outcome.
ImuIteration(data, ok1) ==
    /\ ~imu_stop
    /\ nreads < MaxImuReads
    /\ nreads' = nreads + 1
    /\ imu_read' = data
    /\ zero_run' = IF data = "zeros" THEN (zero_run + 1) % max_failures
                   ELSE IF data = "valid" THEN 0 ELSE zero_run
    /\ zero_hit' = (data = "zeros" /\ zero_run + 1 = max_failures)
    /\ CASE data = "error" ->
              /\ imu_attempts' = 1
              /\ UNCHANGED consecutive_failures
         [] data = "valid" ->
              /\ imu_attempts' = 0
              /\ consecutive_failures' = 0
         [] data = "zeros" ->
              IF FailuresReached(consecutive_failures + 1)
                 THEN IF ok1
                         THEN /\ imu_attempts' = 1
                              /\ consecutive_failures' = 0
                         ELSE /\ imu_attempts' = 2
                              /\ consecutive_failures' =
                                    consecutive_failures + 1
                 ELSE /\ imu_attempts' = 0
                      /\ consecutive_failures' = consecutive_failures + 1
    /\ total_attempts' = total_attempts + imu_attempts'
    /\ UNCHANGED imu_stop
    /\ UNCHANGED <<phaseVars, allocVars, pwmVars, mainVars, yawVars, loopVars, poseVars, ctlVars, mirVars, rateVars, lateVars>>

\* IMUProcessor.stop(): self._stop_event.set(); the loop ends at its next
\* test.
ImuStop ==
    /\ ~imu_stop
    /\ imu_stop' = TRUE
    /\ UNCHANGED <<consecutive_failures, imu_read, imu_attempts, zero_run,
                   zero_hit, nreads, total_attempts>>
    /\ UNCHANGED <<phaseVars, allocVars, pwmVars, mainVars, yawVars, loopVars, poseVars, ctlVars, mirVars, rateVars, lateVars>>

\* _read_imu_data, lines 69-70, on entry.
ImuInitOf(stopped) ==
    /\ imu_stop \in stopped
    /\ consecutive_failures = 0
    /\ imu_read = "none"
    /\ imu_attempts = 0
    /\ zero_run = 0 /\ zero_hit = FALSE
    /\ nreads = 0
    /\ total_attempts = 0

ImuNext ==
    \/ \E data \in ImuReads, ok1 \in BOOLEAN : ImuIteration(data, ok1)
    \/ ImuStop

(***************************************************************************)
(*                  MAIN: ONE ITERATION OF THE CONTROL LOOP                *)
(* The body of `while True` in main(), for one active platform: the        *)
(* termination check, the phase update, the enable flags, the control      *)
(* computation and the allocation, the actuation, the log row and the      *)
(* pacing.  The setpoints of the phases and the gain are not modelled:     *)
(* the body-frame signal the gain yields is an input of the iteration.     *)
(* In a simulation elapsed time is advanced by the pacing; in an           *)
(* experiment it is read from the time stamp of the latest pose.           *)
(***************************************************************************)

\* Most iterations followed of an experiment, whose time stamps need not
\* reach the duration.
MaxLoopTicks == 3

Controllers == {"chaser", "target", "obstacle"}

\* Timelines of six phases: a short one, and main()'s with its durations
\* counted in seconds (the loop compares times only with each other).
LoopConfigs == { <<10, 10, 20, 20, 10, 10>>, <<5, 5, 40, 170, 30, 20>> }

\* Loop periods: one that hits every phase start and the duration, ones
\* that step over them.
LoopPeriods == {10, 15, 250}

\* Elapsed times of the latest pose in an experiment.
LoopStamps == {0, 15, 30, 45, 70, 80, 250, 270}

\* Body-frame signals of an enabled controller.
LoopSignals == { <<0, 0, 0>>, <<1000, 0, 0>>, <<6000, -6000, -4000>> }

\* DURATION = sum([phases[key] for key in phases.keys()])
DURATION == SumTo(phases, Len(phases))

\* Mutant of the termination test: strict.
DurationReached_Strict(t) == t > DURATION
\* `if t_now >= DURATION: break`
DurationReached(t) == t >= DURATION

\* is_phase(phase): `return track_phase.last_phase == phase`
is_phase(p) == last_phase = p

\* Mutant of the enable logic: the last phase does not disable control.
ControlDisabled_NotLast == is_phase(0) \/ is_phase(1)
\* `if is_phase(0) or is_phase(1) or is_phase(5)`
ControlDisabled == is_phase(0) \/ is_phase(1) \/ is_phase(5)

LoopGhosts == <<tick_decay, act_decay_in, last_ctl, last_act, last_log>>

\* Lines 305-345: the termination check.  An experiment reads the elapsed
\* time from the latest pose and leaves t_now alone when it breaks.
LoopCheckDuration ==
    /\ loop_pc = "check"
    /\ IF loop_experiment
          THEN /\ nloops < MaxLoopTicks
               /\ \E s \in LoopStamps :
                     IF DurationReached(s)
                        THEN loop_pc' = "exited" /\ t_now' = t_now
                        ELSE loop_pc' = "track" /\ t_now' = s
          ELSE /\ t_now' = t_now
               /\ loop_pc' = IF DurationReached(t_now) THEN "exited"
                                                       ELSE "track"
    /\ UNCHANGED <<loop_experiment, PERIOD, enable_control, nloops,
                   LoopGhosts>>
    /\ UNCHANGED <<phaseVars, allocVars, pwmVars, mainVars, yawVars, imuVars, poseVars, ctlVars, mirVars, rateVars, lateVars>>

\* Line 350: track_phase(t_now)
LoopTrackPhase ==
    /\ loop_pc = "track"
    /\ TrackUpdate(t_now)
    /\ loop_pc' = "enable"
    /\ UNCHANGED <<loop_experiment, PERIOD, t_now, enable_control, nloops,
                   LoopGhosts>>
    /\ UNCHANGED <<allocVars, pwmVars, mainVars, yawVars, imuVars, poseVars, ctlVars, mirVars, rateVars, lateVars>>

\* Lines 493-500: the enable flags of the three controllers.
LoopEnable ==
    /\ loop_pc = "enable"
    /\ enable_control' = [c \in Controllers |-> ~ControlDisabled]
    /\ loop_pc' = "control"
    /\ UNCHANGED <<loop_experiment, PERIOD, t_now, nloops, LoopGhosts>>
    /\ UNCHANGED <<phaseVars, allocVars, pwmVars, mainVars, yawVars, imuVars, poseVars, ctlVars, mirVars, rateVars, lateVars>>

\* Lines 506-507: compute_control(state, target).  A disabled controller's
\* signal is zero; the call ends with compute_control_body_frame and
\* compute_duty_cycle.
LoopComputeControl ==
    /\ loop_pc = "control"
    /\ \E u \in (IF enable_control["chaser"] THEN LoopSignals
                                             ELSE { <<0, 0, 0>> }) :
          /\ controlSignalBodyFrame' = u
          /\ OptimizeFast(u)
    /\ alloc_op' = "compute_control"
    /\ alloc_error' = FALSE
    /\ tick_decay' = current_decay_factor
    /\ last_ctl' = t_now
    /\ loop_pc' = "allocate"
    /\ UNCHANGED geom
    /\ UNCHANGED <<loop_experiment, PERIOD, t_now, enable_control, nloops,
                   act_decay_in, last_act, last_log>>
    /\ UNCHANGED <<phaseVars, pwmVars, mainVars, yawVars, imuVars, poseVars, ctlVars, mirVars, rateVars, lateVars>>

\* Lines 509-515: compute_control_body_frame with the same attitude (the
\* same body-frame signal again), compute_duty_cycle, and
\* compute_saturated_control_signal, which rotates the achievable signal.
LoopAllocate ==
    /\ loop_pc = "allocate"
    /\ OptimizeFast(controlSignalBodyFrame)
    /\ alloc_op' = "compute_saturated_control_signal"
    /\ alloc_error' = FALSE
    /\ loop_pc' = "actuate"
    /\ UNCHANGED <<geom, controlSignalBodyFrame>>
    /\ UNCHANGED <<loop_experiment, PERIOD, t_now, enable_control, nloops,
                   LoopGhosts>>
    /\ UNCHANGED <<phaseVars, pwmVars, mainVars, yawVars, imuVars, poseVars, ctlVars, mirVars, rateVars, lateVars>>

\* Lines 517-529: set_all_duty_cycles(dutyCycle) in an experiment,
\* apply_force(saturatedControlSignal) and update(PERIOD) in a simulation.
LoopActuate ==
    /\ loop_pc = "actuate"
    /\ act_decay_in' = alloc_decay_in
    /\ last_act' = t_now
    /\ loop_pc' = "log"
    /\ UNCHANGED <<loop_experiment, PERIOD, t_now, enable_control, nloops,
                   tick_decay, last_ctl, last_log>>
    /\ UNCHANGED <<phaseVars, allocVars, pwmVars, mainVars, yawVars, imuVars, poseVars, ctlVars, mirVars, rateVars, lateVars>>

\* Line 594: handle_data_logging appends the row of this iteration.
LoopLog ==
    /\ loop_pc = "log"
    /\ last_log' = t_now
    /\ loop_pc' = "timing"
    /\ UNCHANGED <<loop_experiment, PERIOD, t_now, enable_control, nloops,
                   tick_decay, act_decay_in, last_ctl, last_act>>
    /\ UNCHANGED <<phaseVars, allocVars, pwmVars, mainVars, yawVars, imuVars, poseVars, ctlVars, mirVars, rateVars, lateVars>>

\* Line 600: t_now = handle_loop_timing(...).  A simulation advances the
\* elapsed time by one period; an experiment is paced by the acquisition.
LoopTiming ==
    /\ loop_pc = "timing"
    /\ t_now' = IF loop_experiment THEN t_now ELSE t_now + PERIOD
    /\ nloops' = nloops + 1
    /\ loop_pc' = "check"
    /\ UNCHANGED <<loop_experiment, PERIOD, enable_control, LoopGhosts>>
    /\ UNCHANGED <<phaseVars, allocVars, pwmVars, mainVars, yawVars, imuVars, poseVars, ctlVars, mirVars, rateVars, lateVars>>

\* Lines 187 and 25 of Controllers.py: t_now = 0, enable_control = False.
LoopInitOf(modes, periods) ==
    /\ loop_experiment \in modes
    /\ PERIOD \in periods
    /\ t_now = 0
    /\ loop_pc = "check"
    /\ enable_control = [c \in Controllers |-> FALSE]
    /\ nloops = 0
    /\ tick_decay = 1000
    /\ act_decay_in = 1000
    /\ last_ctl = -1
    /\ last_act = -1
    /\ last_log = -1

LoopNext ==
    \/ LoopCheckDuration
    \/ LoopTrackPhase
    \/ LoopEnable
    \/ LoopComputeControl
    \/ LoopAllocate
    \/ LoopActuate
    \/ LoopLog
    \/ LoopTiming

(***************************************************************************)
(*                 POSE PIPELINE (OwlStreamProcessor)                      *)
(* The acquisition thread and one caller of get() run in parallel; every   *)
(* access to self.states and every lock operation is one step.  A state    *)
(* dict is an object of the heap: self.states and the copies get() returns *)
(* hold references to it.  A measurement is identified by the number of    *)
(* its frame: a dict records, for each of its four entries, the frames     *)
(* the entry was computed from.                                            *)
(***************************************************************************)

\* Most frames received and most get() calls followed.
MaxSamples == 3
MaxGets == 2

Bodies == {"chaser", "target", "obstacle"}

\* The rigid bodies with r.cond > 0 of a frame, in the order of event.rigids.
FrameRigids ==
    { <<"chaser">>, <<"target", "chaser">>, <<"chaser", "target", "obstacle">> }

\* The dict of lines 163-168 for the measurement of frame s whose previous
\* measurement is of frame p (0: none): position and yaw are of s, the
\* velocities are the finite difference of s against p, or zero.
StateDict(p, s) ==
    [pos |-> s, att |-> s, vel |-> <<p, s>>, omega |-> <<p, s>>]

\* Stands for the content of None in got_content.
NoDict == StateDict(0, 0)

\* Mutant of the publication: the entries of the dict in place are updated.
Publish_InPlace(key, dict) ==
    IF states[key] = 0
       THEN /\ heap' = Append(heap, dict)
            /\ states' = [states EXCEPT ![key] = Len(heap) + 1]
       ELSE /\ heap' = [heap EXCEPT ![states[key]] = dict]
            /\ states' = states
\* `self.states[key] = { ... }`: a new dict replaces the reference.
Publish(key, dict) ==
    /\ heap' = Append(heap, dict)
    /\ states' = [states EXCEPT ![key] = Len(heap) + 1]

PoseGetFrame == <<gpc, got, got_content, ngets>>

\* Lines 116-122: the loop condition and nextEvent with its timeout; a
\* frame with rigid bodies starts the loop over them.
PosePoll ==
    /\ ppc = "poll"
    /\ IF pose_stop
          THEN ppc' = "done" /\ UNCHANGED <<rigids, nsamples>>
          ELSE \/ UNCHANGED <<ppc, rigids, nsamples>>
               \/ /\ nsamples < MaxSamples
                  /\ \E f \in FrameRigids : rigids' = f
                  /\ nsamples' = nsamples + 1
                  /\ ppc' = "rigid"
    /\ UNCHANGED <<heap, states, prev_states, pose_lock, pose_stop, pending,
                   PoseGetFrame>>
    /\ UNCHANGED <<phaseVars, allocVars, pwmVars, mainVars, yawVars, imuVars,
                   loopVars, ctlVars, mirVars, rateVars, lateVars>>

\* Lines 124-159: the measurement of the next rigid body, its velocities
\* against the previous measurement, and the update of prev_states.
PoseMeasure ==
    /\ ppc = "rigid"
    /\ IF rigids = <<>>
          THEN /\ ppc' = "poll"
               /\ UNCHANGED <<prev_states, pending>>
          ELSE /\ pending' = StateDict(prev_states[Head(rigids)], nsamples)
               /\ prev_states' = [prev_states EXCEPT ![Head(rigids)] = nsamples]
               /\ ppc' = "lock"
    /\ UNCHANGED <<heap, states, pose_lock, pose_stop, rigids, nsamples,
                   PoseGetFrame>>
    /\ UNCHANGED <<phaseVars, allocVars, pwmVars, mainVars, yawVars, imuVars,
                   loopVars, ctlVars, mirVars, rateVars, lateVars>>

\* Line 162: `with self.lock:`
PoseLock ==
    /\ ppc = "lock"
    /\ pose_lock = "free"
    /\ pose_lock' = "thread"
    /\ ppc' = "publish"
    /\ UNCHANGED <<heap, states, prev_states, pose_stop, rigids, nsamples,
                   pending, PoseGetFrame>>
    /\ UNCHANGED <<phaseVars, allocVars, pwmVars, mainVars, yawVars, imuVars,
                   loopVars, ctlVars, mirVars, rateVars, lateVars>>

\* Lines 163-168: the assignment to self.states[key].
PosePublish ==
    /\ ppc = "publish"
    /\ Publish(Head(rigids), pending)
    /\ ppc' = "unlock"
    /\ UNCHANGED <<prev_states, pose_lock, pose_stop, rigids, nsamples,
                   pending, PoseGetFrame>>
    /\ UNCHANGED <<phaseVars, allocVars, pwmVars, mainVars, yawVars, imuVars,
                   loopVars, ctlVars, mirVars, rateVars, lateVars>>

\* The end of the with block, and the next rigid body of the frame.
PoseUnlock ==
    /\ ppc = "unlock"
    /\ pose_lock' = "free"
    /\ rigids' = Tail(rigids)
    /\ ppc' = "rigid"
    /\ UNCHANGED <<heap, states, prev_states, pose_stop, nsamples, pending,
                   PoseGetFrame>>
    /\ UNCHANGED <<phaseVars, allocVars, pwmVars, mainVars, yawVars, imuVars,
                   loopVars, ctlVars, mirVars, rateVars, lateVars>>

\* get(), line 183: `with self.lock:`
GetLock ==
    /\ gpc = "idle"
    /\ ngets < MaxGets
    /\ pose_lock = "free"
    /\ pose_lock' = "get"
    /\ gpc' = "copy"
    /\ UNCHANGED <<heap, states, prev_states, pose_stop, ppc, rigids,
                   nsamples, pending, got, got_content, ngets>>
    /\ UNCHANGED <<phaseVars, allocVars, pwmVars, mainVars, yawVars, imuVars,
                   loopVars, ctlVars, mirVars, rateVars, lateVars>>

\* get(), line 184: self.states.copy(), a copy of the references.
GetCopy ==
    /\ gpc = "copy"
    /\ got' = states
    /\ got_content' =
          [b \in Bodies |-> IF states[b] = 0 THEN NoDict ELSE heap[states[b]]]
    /\ gpc' = "return"
    /\ UNCHANGED <<heap, states, prev_states, pose_lock, pose_stop, ppc,
                   rigids, nsamples, pending, ngets>>
    /\ UNCHANGED <<phaseVars, allocVars, pwmVars, mainVars, yawVars, imuVars,
                   loopVars, ctlVars, mirVars, rateVars, lateVars>>

\* get(): the lock is released and the copy returned.
GetReturn ==
    /\ gpc = "return"
    /\ pose_lock' = "free"
    /\ gpc' = "idle"
    /\ ngets' = ngets + 1
    /\ UNCHANGED <<heap, states, prev_states, pose_stop, ppc, rigids,
                   nsamples, pending, got, got_content>>
    /\ UNCHANGED <<phaseVars, allocVars, pwmVars, mainVars, yawVars, imuVars,
                   loopVars, ctlVars, mirVars, rateVars, lateVars>>

\* stop(), line 190: self._stop_event.set()
PoseStop ==
    /\ ~pose_stop
    /\ gpc = "idle"
    /\ pose_stop' = TRUE
    /\ UNCHANGED <<heap, states, prev_states, pose_lock, ppc, rigids,
                   nsamples, pending, PoseGetFrame>>
    /\ UNCHANGED <<phaseVars, allocVars, pwmVars, mainVars, yawVars, imuVars,
                   loopVars, ctlVars, mirVars, rateVars, lateVars>>

\* __init__, lines 35-44: no state yet, the thread started.
PoseInitOf ==
    /\ heap = <<>>
    /\ states = [b \in Bodies |-> 0]
    /\ prev_states = [b \in Bodies |-> 0]
    /\ pose_lock = "free"
    /\ pose_stop = FALSE
    /\ ppc = "poll"
    /\ rigids = <<>>
    /\ nsamples = 0
    /\ pending = NoDict
    /\ gpc = "idle"
    /\ got = [b \in Bodies |-> 0]
    /\ got_content = [b \in Bodies |-> NoDict]
    /\ ngets = 0

PoseNext ==
    \/ PosePoll
    \/ PoseMeasure
    \/ PoseLock
    \/ PosePublish
    \/ PoseUnlock
    \/ GetLock
    \/ GetCopy
    \/ GetReturn
    \/ PoseStop

(***************************************************************************)
(*              CONTROLLER: FROM THE ENABLE FLAG TO THE DUTIES             *)
(* compute_control(state, target) of one controller: the inertial signal   *)
(* is -K @ error when the controller is enabled and zero otherwise; it is  *)
(* rotated into the body frame by the attitude of the state and handed to  *)
(* the allocation.  The gain's output -K @ error is any vector of          *)
(* GainOutputs; the attitude is a multiple of a quarter turn, for which    *)
(* the rotation matrix is exact.                                           *)
(***************************************************************************)

\* -K @ error for some state and target, in thousandths.
GainOutputs ==
    { <<0, 0, 0>>, <<1000, 0, 0>>, <<-2000, 1000, 0>>, <<6000, -6000, -4000>> }

\* The attitude state[2], in quarter turns.
QuarterTurns == 0 .. 3
Cos4(q) == CASE q = 0 -> 1 [] q = 1 -> 0 [] q = 2 -> -1 [] OTHER -> 0
Sin4(q) == CASE q = 0 -> 0 [] q = 1 -> 1 [] q = 2 -> 0 [] OTHER -> -1

\* C_bI @ v[:2] with C_bI = [[cos, sin], [-sin, cos]], the torque appended.
RotateToBody(q, v) ==
    << Cos4(q) * v[1] + Sin4(q) * v[2],
       Cos4(q) * v[2] - Sin4(q) * v[1],
       v[3] >>

\* Mutant of the gate: the gain's output whatever the flag.
ControlSignalOf_Always(enabled, k) == k
\* `if self.enable_control: -self.K @ error else: np.array([np.zeros(3)])`
ControlSignalOf(enabled, k) == IF enabled THEN k ELSE <<0, 0, 0>>

\* main.py assigns controller.enable_control.
CtlSetEnable(b) ==
    /\ ctl_enable' = b
    /\ alloc_op' = "enable_control"
    /\ UNCHANGED controlSignal
    /\ UNCHANGED <<geom, controlSignalBodyFrame, dutyCycle,
                   current_decay_factor, saturatedControlSignalBodyFrame,
                   alloc_error, alloc_decay_in, alloc_raw, alloc_duty>>
    /\ UNCHANGED <<phaseVars, pwmVars, mainVars, yawVars, imuVars, loopVars, poseVars, mirVars, rateVars, lateVars>>

\* compute_control(state, target) for a state of attitude q whose gain
\* output is k: the signal, compute_control_body_frame, compute_duty_cycle.
CtlComputeControl(q, k) ==
    \E sig \in { ControlSignalOf(ctl_enable, k) } :
    \E body \in { RotateToBody(q, sig) } :
        /\ controlSignal' = sig
        /\ controlSignalBodyFrame' = body
        /\ OptimizeFast(body)
        /\ alloc_op' = "compute_control"
        /\ alloc_error' = FALSE
        /\ UNCHANGED <<geom, ctl_enable>>
        /\ UNCHANGED <<phaseVars, pwmVars, mainVars, yawVars, imuVars, loopVars, poseVars, mirVars, rateVars, lateVars>>

\* Controllers.py:25 and 60: enable_control = False, controlSignal = None.
CtlInitOf ==
    /\ ctl_enable = FALSE
    /\ controlSignal = <<>>

CtlNext ==
    \/ \E b \in BOOLEAN : CtlSetEnable(b)
    \/ \E q \in QuarterTurns : \E k \in GainOutputs : CtlComputeControl(q, k)

(***************************************************************************)
(*               THE TWO PWM WORKERS ON THE SAME INPUTS                    *)
(* _simulate_pwm_control_loop and _pwm_control_loop run side by side on    *)
(* one sequence of duty requests, one running flag and one sequence of     *)
(* clock readings; every GPIO write succeeds.  Both loops have the same    *)
(* steps up to the end of the outer loop, where the simulation worker      *)
(* returns and the experiment worker runs its `finally:`.                  *)
(***************************************************************************)

\* Simulation, lines 300-305: the state follows duty > 0.
SimOn(st, i, duty) == [st EXCEPT ![i] = duty[i] > 0]
\* Experiment, lines 227-234: the same under `self.running.value`.
ExpOn(st, i, duty, run) == IF run THEN [st EXCEPT ![i] = duty[i] > 0] ELSE st
\* Simulation, lines 312-315
SimOff(st, i, duty, el) ==
    IF st[i] /\ el >= duty[i] THEN [st EXCEPT ![i] = FALSE] ELSE st
\* Experiment, lines 245-250
ExpOff(st, i, duty, el, run) ==
    IF run /\ st[i] /\ el >= duty[i] THEN [st EXCEPT ![i] = FALSE] ELSE st
\* Experiment, lines 274-277
ExpFinally(st, i) == [st EXCEPT ![i] = FALSE]

MirShared == <<mir_running, mir_requested, mir_updated, mir_duty>>

\* start(): the flag goes up and the workers start.
MirStart ==
    /\ mir_pc = "none"
    /\ mir_running' = TRUE
    /\ mir_pc' = "check"
    /\ UNCHANGED <<mir_requested, mir_updated, mir_duty, mir_wi, mir_elapsed,
                   sim_states, exp_states>>
    /\ UNCHANGED <<phaseVars, allocVars, pwmVars, mainVars, yawVars, imuVars, loopVars, poseVars, ctlVars, rateVars, lateVars>>

\* set_all_duty_cycles(vec), between two steps of the workers (the lock keeps
\* it out of the copy).
MirSetAll(vec) ==
    /\ mir_requested' = [i \in Ch |-> Clamp(vec[i])]
    /\ mir_updated' = TRUE
    /\ UNCHANGED <<mir_running, mir_duty, mir_pc, mir_wi, mir_elapsed,
                   sim_states, exp_states>>
    /\ UNCHANGED <<phaseVars, allocVars, pwmVars, mainVars, yawVars, imuVars, loopVars, poseVars, ctlVars, rateVars, lateVars>>

\* stop(): `self.running.value = False`
MirStop ==
    /\ mir_running
    /\ mir_running' = FALSE
    /\ UNCHANGED <<mir_requested, mir_updated, mir_duty, mir_pc, mir_wi,
                   mir_elapsed, sim_states, exp_states>>
    /\ UNCHANGED <<phaseVars, allocVars, pwmVars, mainVars, yawVars, imuVars, loopVars, poseVars, ctlVars, rateVars, lateVars>>

\* `while self.running.value:` then the copy of a pending request.
MirCheck ==
    /\ mir_pc = "check"
    /\ IF mir_running
          THEN /\ mir_pc' = "on" /\ mir_wi' = 1
               /\ mir_duty' = IF mir_updated THEN mir_requested ELSE mir_duty
               /\ mir_updated' = FALSE
          ELSE /\ mir_pc' = "finally" /\ mir_wi' = 1
               /\ UNCHANGED <<mir_duty, mir_updated>>
    /\ UNCHANGED <<mir_running, mir_requested, mir_elapsed, sim_states,
                   exp_states>>
    /\ UNCHANGED <<phaseVars, allocVars, pwmVars, mainVars, yawVars, imuVars, loopVars, poseVars, ctlVars, rateVars, lateVars>>

\* The turn-ON pass, channel mir_wi, in both loops.
MirOn ==
    /\ mir_pc = "on"
    /\ sim_states' = SimOn(sim_states, mir_wi, mir_duty)
    /\ exp_states' = ExpOn(exp_states, mir_wi, mir_duty, mir_running)
    /\ IF mir_wi = NumChannels
          THEN mir_pc' = "inner" /\ mir_wi' = 1 /\ mir_elapsed' = 0
          ELSE mir_wi' = mir_wi + 1 /\ UNCHANGED <<mir_pc, mir_elapsed>>
    /\ UNCHANGED MirShared
    /\ UNCHANGED <<phaseVars, allocVars, pwmVars, mainVars, yawVars, imuVars, loopVars, poseVars, ctlVars, rateVars, lateVars>>

\* `while elapsed_time < self.PERIOD and self.running.value:` and the clock
\* reading; when the loop ends both workers are back at the outer `while`
\* (the experiment loop's `if not self.running.value: break` leads where
\* its outer condition leads).
MirInner ==
    /\ mir_pc = "inner"
    /\ IF mir_elapsed < PeriodTicks /\ mir_running
          THEN /\ \E now \in mir_elapsed .. PeriodTicks : mir_elapsed' = now
               /\ mir_pc' = "off" /\ mir_wi' = 1
          ELSE /\ mir_pc' = "check"
               /\ UNCHANGED <<mir_elapsed, mir_wi>>
    /\ UNCHANGED <<MirShared, sim_states, exp_states>>
    /\ UNCHANGED <<phaseVars, allocVars, pwmVars, mainVars, yawVars, imuVars, loopVars, poseVars, ctlVars, rateVars, lateVars>>

\* The turn-OFF pass, channel mir_wi, in both loops.
MirOff ==
    /\ mir_pc = "off"
    /\ sim_states' = SimOff(sim_states, mir_wi, mir_duty, mir_elapsed)
    /\ exp_states' = ExpOff(exp_states, mir_wi, mir_duty, mir_elapsed,
                            mir_running)
    /\ IF mir_wi = NumChannels
          THEN mir_pc' = "inner" /\ mir_wi' = 1
          ELSE mir_wi' = mir_wi + 1 /\ UNCHANGED mir_pc
    /\ UNCHANGED <<MirShared, mir_elapsed>>
    /\ UNCHANGED <<phaseVars, allocVars, pwmVars, mainVars, yawVars, imuVars, loopVars, poseVars, ctlVars, rateVars, lateVars>>

\* The simulation worker has returned; the experiment worker's `finally:`
\* drives channel mir_wi LOW and marks it OFF.
MirFinally ==
    /\ mir_pc = "finally"
    /\ exp_states' = ExpFinally(exp_states, mir_wi)
    /\ IF mir_wi = NumChannels
          THEN mir_pc' = "done" /\ mir_wi' = 1
          ELSE mir_wi' = mir_wi + 1 /\ UNCHANGED mir_pc
    /\ UNCHANGED <<MirShared, mir_elapsed, sim_states>>
    /\ UNCHANGED <<phaseVars, allocVars, pwmVars, mainVars, yawVars, imuVars, loopVars, poseVars, ctlVars, rateVars, lateVars>>

\* Thrusters.__init__, for both actuators.
MirInitOf ==
    /\ mir_running = FALSE
    /\ mir_requested = [i \in Ch |-> 0]
    /\ mir_updated = FALSE
    /\ mir_duty = [i \in Ch |-> 0]
    /\ mir_pc = "none" /\ mir_wi = 1 /\ mir_elapsed = 0
    /\ sim_states = [i \in Ch |-> FALSE]
    /\ exp_states = [i \in Ch |-> FALSE]

MirNext ==
    \/ MirStart
    \/ \E vec \in SetAllInputs : MirSetAll(vec)
    \/ MirStop
    \/ MirCheck
    \/ MirOn
    \/ MirInner
    \/ MirOff
    \/ MirFinally

(***************************************************************************)
(*                 POSE PIPELINE: THE PUBLISHED VELOCITIES                 *)
(* The measurement of one rigid body in _execute_data_stream, as one step: *)
(* the yaw, the clock reading, the finite differences against the previous *)
(* sample of that body, the update of prev_states and the publication.     *)
(* Positions are in millimetres, angles in milliradians, clock readings in *)
(* milliseconds; published positions are in thousandths of a metre and     *)
(* published rates in thousandths of m/s and of rad/s.                     *)
(***************************************************************************)

\* Measurements processed in one run.
MaxMeasures == 3

\* r.pose[0], r.pose[1] in millimetres.
PosSamples == { <<0, 0>>, <<2, -4>> }
\* The yaw np.arctan2 returns, close to -pi, 0, close to pi.
YawSamples == { -3100, 0, 3100 }
\* The clock's advance between two readings: none (within its resolution)
\* or 2 ms; time.perf_counter() does not go back.
ClockSteps == { 0, 2 }

\* Stand for None in prev_states and in states: a sample of no time, a
\* dict of no yaw.
NoSample == [pos |-> <<0, 0>>, yaw |-> 0, time |-> -1]
NoState == [pos |-> <<0, 0>>, att |-> 2 * TwoPi, vel |-> <<0, 0>>, omega |-> 0]

\* Mutant of the look-up: the latest sample of any body.
PrevOf_Any(prev, key) ==
    IF \E b \in Bodies : prev[b] # NoSample
       THEN prev[CHOOSE b \in Bodies : prev[b] # NoSample]
       ELSE NoSample
\* prev = self.prev_states.get(key)
PrevOf(prev, key) == prev[key]

\* (a - b) / dt for dt in milliseconds, a and b in thousandths of the unit:
\* thousandths of the unit per second, divided by 1000 and rounded down.
RateOf(a, b, dt) == ((a - b) * 1000) \div dt

\* Lines 145-156: vel and omega of a sample against prev, at time now.
Velocities(prev, pos, yaw, now) ==
    IF prev = NoSample
       THEN [vel |-> <<0, 0>>, omega |-> 0]
       ELSE IF now - prev.time > 0
               THEN [vel |-> << RateOf(pos[1], prev.pos[1], now - prev.time),
                                RateOf(pos[2], prev.pos[2], now - prev.time) >>,
                     omega |-> RateOf(yaw, prev.yaw, now - prev.time)]
               ELSE [vel |-> <<0, 0>>, omega |-> 0]

\* Lines 124-168 for one rigid body with r.cond > 0 and a known id.
RateMeasure(key, pos, yaw, step) ==
    /\ nmeasures < MaxMeasures
    /\ nmeasures' = nmeasures + 1
    /\ rate_clock' = rate_clock + step
    /\ \E prev \in { PrevOf(rate_prev, key) } :
       \E v \in { Velocities(prev, pos, yaw, rate_clock') } :
          /\ rate_prev' = [rate_prev EXCEPT
                             ![key] = [pos |-> pos, yaw |-> yaw,
                                       time |-> rate_clock']]
          /\ rate_states' = [rate_states EXCEPT
                               ![key] = [pos |-> pos, att |-> yaw,
                                         vel |-> v.vel, omega |-> v.omega]]
          /\ rate_last' = [key |-> key, pos |-> pos, yaw |-> yaw,
                           time |-> rate_clock', before |-> rate_prev[key]]
    /\ UNCHANGED <<phaseVars, allocVars, pwmVars, mainVars, yawVars, imuVars, loopVars, poseVars, ctlVars, mirVars, lateVars>>

\* __init__, lines 35-37: no state and no previous sample.
RateInitOf ==
    /\ rate_prev = [b \in Bodies |-> NoSample]
    /\ rate_states = [b \in Bodies |-> NoState]
    /\ rate_clock = 0
    /\ nmeasures = 0
    /\ rate_last = [key |-> "none", pos |-> <<0, 0>>, yaw |-> 0, time |-> 0,
                    before |-> NoSample]

RateNext ==
    \E key \in Bodies, pos \in PosSamples, yaw \in YawSamples,
       step \in ClockSteps : RateMeasure(key, pos, yaw, step)

(***************************************************************************)
(*               SENSOR PIPELINES: stop() AND THE THREAD                   *)
(* OwlStreamProcessor.stop / _execute_data_stream (Phasespace.py) and      *)
(* IMUProcessor.stop / _read_imu_data (BMI160.py): the thread tests the    *)
(* stop event at the top of its loop and then polls the server or reads    *)
(* the sensor; stop() sets the event and joins the thread.  The time       *)
(* join() has waited is counted in half seconds.                           *)
(***************************************************************************)

\* Polls / sensor reads followed in one run.
MaxJnCalls == 6

\* The pipelines.
Pipelines == {"pose", "imu"}

\* join() without a timeout.
NoTimeout == -1

\* self.thread.join() of OwlStreamProcessor.stop, and
\* self.thread.join(timeout=2.0) of IMUProcessor.stop.
JoinTimeoutOf(kind) == IF kind = "imu" THEN 4 ELSE NoTimeout

\* The loop test: `while not self._stop_event.is_set()`, for the pose
\* pipeline `and (isOpen() and property("initialized"))`, whose value is
\* `open`.  A false test ends the loop and runs the finally block.
JnTest(open) ==
    /\ jn_thread = "test"
    /\ IF jn_stop_event \/ (jn_kind = "pose" /\ ~open)
          THEN jn_thread' = "finally" /\ UNCHANGED jn_calls
          ELSE /\ jn_calls < MaxJnCalls
               /\ jn_calls' = jn_calls + 1
               /\ jn_thread' = "call"
    /\ UNCHANGED <<jn_kind, jn_stop_event, jn_pc, jn_waited>>
    /\ UNCHANGED joinRest

\* nextEvent(1000000) / getMotion6() returns (an event, no event, data, or
\* an exception the loop body handles) and the iteration ends.
JnCallReturns ==
    /\ jn_thread = "call"
    /\ jn_thread' = "test"
    /\ UNCHANGED <<jn_kind, jn_stop_event, jn_calls, jn_pc, jn_waited>>
    /\ UNCHANGED joinRest

\* The call does not return: the thread stays in the library or driver.
JnCallBlocks ==
    /\ jn_thread = "call"
    /\ jn_thread' = "blocked"
    /\ UNCHANGED <<jn_kind, jn_stop_event, jn_calls, jn_pc, jn_waited>>
    /\ UNCHANGED joinRest

\* The finally block (done() and close(), or the print); the thread ends.
JnFinally ==
    /\ jn_thread = "finally"
    /\ jn_thread' = "exited"
    /\ UNCHANGED <<jn_kind, jn_stop_event, jn_calls, jn_pc, jn_waited>>
    /\ UNCHANGED joinRest

\* stop(): self._stop_event.set(), then the join begins.
JnStop ==
    /\ jn_pc = "idle"
    /\ jn_stop_event' = TRUE
    /\ jn_pc' = "join"
    /\ jn_waited' = 0
    /\ UNCHANGED <<jn_kind, jn_thread, jn_calls>>
    /\ UNCHANGED joinRest

\* join() goes on waiting: the thread is alive and the timeout, if there
\* is one, has not passed.  Without a timeout no time is counted.
JnJoinWait ==
    /\ jn_pc = "join"
    /\ jn_thread # "exited"
    /\ JoinTimeoutOf(jn_kind) # NoTimeout
    /\ jn_waited < JoinTimeoutOf(jn_kind)
    /\ jn_waited' = jn_waited + 1
    /\ UNCHANGED <<jn_kind, jn_stop_event, jn_thread, jn_calls, jn_pc>>
    /\ UNCHANGED joinRest

\* join() returns, and with it stop(): the thread has ended, or the
\* timeout has passed.
JnJoinReturn ==
    /\ jn_pc = "join"
    /\ \/ jn_thread = "exited"
       \/ /\ JoinTimeoutOf(jn_kind) # NoTimeout
          /\ jn_waited >= JoinTimeoutOf(jn_kind)
    /\ jn_pc' = "returned"
    /\ UNCHANGED <<jn_kind, jn_stop_event, jn_thread, jn_calls, jn_waited>>
    /\ UNCHANGED joinRest

\* __init__: the event is clear and the thread has been started.
JoinInitOf(kinds) ==
    /\ jn_kind \in kinds
    /\ jn_stop_event = FALSE
    /\ jn_thread = "test"
    /\ jn_calls = 0
    /\ jn_pc = "idle"
    /\ jn_waited = 0

JnThreadSteps ==
    \/ \E open \in BOOLEAN : JnTest(open)
    \/ JnCallReturns
    \/ JnCallBlocks
    \/ JnFinally

JnStopSteps ==
    \/ JnStop
    \/ JnJoinWait
    \/ JnJoinReturn

JoinNext ==
    \/ JnThreadSteps
    \/ JnStopSteps

(***************************************************************************)
(*                  DYNAMICS SURROGATE (Spacecraft)                        *)
(* apply_force and update of src/classes/Spacecraft.py.  Quantities are    *)
(* integers; the forces and torques offered are multiples of every mass    *)
(* and inertia offered, so that force / mass is computed exactly.          *)
(***************************************************************************)

\* Calls followed in one run.
MaxDynSteps == 4

\* mass and inertia of a platform.
Masses == {1, 2}
\* The force (Fx, Fy) and the torque of a call.
Forces == { <<0, 0>>, <<2, -4>> }
Torques == { 0, 2 }
\* The dt of an update.
TimeSteps == {1, 2}

\* No force on record.
NoForce == <<>>

\* Mutant of the position update: with the velocity before the update.
PositionAfter_Explicit(p, vOld, vNew, dt) == p + vOld * dt
\* Lines 76-78: position += velocity * dt, after velocity was updated.
PositionAfter(p, vOld, vNew, dt) == p + vNew * dt

\* Lines 71-73: velocity += acceleration * dt.
VelocityAfter(v, a, dt) == v + a * dt

\* apply_force(force, torque), lines 49-51.
ApplyForce(force, torque) ==
    /\ dyn_steps < MaxDynSteps
    /\ dyn_steps' = dyn_steps + 1
    /\ acceleration' = << force[1] \div mass, force[2] \div mass >>
    /\ angular_acceleration' = torque \div inertia
    /\ dyn_last' = [op |-> "apply_force", force |-> force, torque |-> torque]
    /\ UNCHANGED <<mass, inertia, position, attitude, velocity,
                   angular_velocity>>
    /\ UNCHANGED dynRest

\* update(dt), lines 71-93.
Update(dt) ==
    /\ dyn_steps < MaxDynSteps
    /\ dyn_steps' = dyn_steps + 1
    /\ velocity' = << VelocityAfter(velocity[1], acceleration[1], dt),
                      VelocityAfter(velocity[2], acceleration[2], dt) >>
    /\ angular_velocity' =
          VelocityAfter(angular_velocity, angular_acceleration, dt)
    /\ position' = << PositionAfter(position[1], velocity[1], velocity'[1], dt),
                      PositionAfter(position[2], velocity[2], velocity'[2], dt) >>
    /\ attitude' = PositionAfter(attitude, angular_velocity,
                                 angular_velocity', dt)
    /\ acceleration' = <<0, 0>>
    /\ angular_acceleration' = 0
    /\ dyn_last' = [op |-> "update",
                    force |-> IF dyn_last.op = "apply_force"
                                 THEN dyn_last.force ELSE NoForce,
                    torque |-> IF dyn_last.op = "apply_force"
                                  THEN dyn_last.torque ELSE 0]
    /\ UNCHANGED <<mass, inertia>>
    /\ UNCHANGED dynRest

\* __init__, lines 18-26: at rest at the origin, nothing pending.
DynInitOf(masses) ==
    /\ mass \in masses /\ inertia \in masses
    /\ position = <<0, 0>> /\ attitude = 0
    /\ velocity = <<0, 0>> /\ angular_velocity = 0
    /\ acceleration = <<0, 0>> /\ angular_acceleration = 0
    /\ dyn_steps = 0
    /\ dyn_last = [op |-> "none", force |-> NoForce, torque |-> 0]

DynNext ==
    \/ \E force \in Forces, torque \in Torques : ApplyForce(force, torque)
    \/ \E dt \in TimeSteps : Update(dt)

(***************************************************************************)
(*                        LOG STORE (Storage)                              *)
(* append_data_batch, _resize_arrays, get_all_data and write_to_npy of     *)
(* src/classes/Storage.py.  An array is a sequence of expected_size        *)
(* numbers; np.zeros gives zeros.                                          *)
(***************************************************************************)

\* append_data_batch calls followed in one run.
MaxAppends == 4

\* Storage(expected_size): the sizes a store is constructed with.
ExpectedSizes == {1, 2}

\* The columns, and the values logged (none of them zero, so that a row
\* that was written differs from one that was only allocated).
LogKeys == {"Time (s)", "Chaser Px (m)"}
LogValues == {1, 2}

\* The data_dict arguments: every dict over some of the columns that has
\* the time.
DataDicts ==
    UNION { [ks -> LogValues] :
               ks \in { k \in SUBSET LogKeys : "Time (s)" \in k } }

\* np.zeros(n)
Zeros(n) == [i \in 1 .. n |-> 0]

\* Mutant of the resize: the new array without the rows of the old one.
Resized_Empty(arr, new_size) == Zeros(new_size)
\* Lines 50-51: temp = np.zeros(new_size); temp[:expected_size] = arr
Resized(arr, new_size) ==
    [i \in 1 .. new_size |-> IF i <= Len(arr) THEN arr[i] ELSE 0]

\* Lines 33-35: the size after the test of append_data_batch.
SizeForAppend == IF current_index >= expected_size
                    THEN expected_size * 2 ELSE expected_size

\* Lines 46-54, when the test of line 33 holds: every array resized.
ArraysForAppend ==
    IF current_index >= expected_size
       THEN [k \in DOMAIN storage_data |->
                Resized(storage_data[k], expected_size * 2)]
       ELSE storage_data

\* get_all_data(key), lines 58-60.
GetAllData(key) ==
    IF key \in DOMAIN storage_data
       THEN SubSeq(storage_data[key], 1, current_index)
       ELSE <<>>

\* append_data_batch(data_dict), lines 33-44.  A write at an index the
\* array does not have raises IndexError and the row is not counted.
AppendDataBatch(data_dict) ==
    /\ Len(appended) < MaxAppends
    /\ appended' = Append(appended, data_dict)
    /\ expected_size' = SizeForAppend
    /\ \E arrays \in { ArraysForAppend } :
       \E all \in { [k \in DOMAIN arrays \cup DOMAIN data_dict |->
                       IF k \in DOMAIN arrays THEN arrays[k]
                       ELSE Zeros(expected_size')] } :
          IF current_index + 1 <= expected_size'
             THEN /\ storage_data' =
                        [k \in DOMAIN all |->
                            IF k \in DOMAIN data_dict
                               THEN [all[k] EXCEPT
                                       ![current_index + 1] = data_dict[k]]
                               ELSE all[k]]
                  /\ current_index' = current_index + 1
                  /\ UNCHANGED index_error
             ELSE /\ storage_data' = all
                  /\ index_error' = TRUE
                  /\ UNCHANGED current_index
    /\ UNCHANGED <<flushed, flushed_at>>
    /\ UNCHANGED logRest

\* write_to_npy, lines 71-76: every array truncated to current_index.
WriteToNpy ==
    /\ flushed_at # Len(appended)
    /\ flushed' = [k \in DOMAIN storage_data |-> GetAllData(k)]
    /\ flushed_at' = Len(appended)
    /\ UNCHANGED <<expected_size, storage_data, current_index, appended,
                   index_error>>
    /\ UNCHANGED logRest

\* __init__, lines 12-14; initialize_arrays is not called by the program.
LogInitOf(sizes) ==
    /\ expected_size \in sizes
    /\ storage_data = << >>
    /\ current_index = 0
    /\ appended = << >>
    /\ index_error = FALSE
    /\ flushed = << >>
    /\ flushed_at = -1

LogNext ==
    \/ \E data_dict \in DataDicts : AppendDataBatch(data_dict)
    \/ WriteToNpy

(***************************************************************************)
(*              PHASE SEQUENCER: THE ORDER OF THE KEYS                     *)
(* create_phase_tracker numbers the phases in the order of                 *)
(* sorted(phases.keys()).  The keys are the strings PHASE_<i>_DURATION,    *)
(* which Python compares code point by code point.                         *)
(***************************************************************************)

\* Most phases of a map.
MaxPhases == 11

\* The durations of a map's phases.
PhaseDurations == {10, 20}

\* The code points of "PHASE_" and of "_DURATION".
KeyHead == <<80, 72, 65, 83, 69, 95>>
KeyTail == <<95, 68, 85, 82, 65, 84, 73, 79, 78>>

\* str(i): the code points of the decimal digits of i.
RECURSIVE Digits(_)
Digits(i) == IF i < 10 THEN << 48 + i >>
             ELSE Digits(i \div 10) \o << 48 + (i % 10) >>

\* The key of phase i.
KeyOf(i) == KeyHead \o Digits(i) \o KeyTail

\* a < b for two strings: at the first position where they differ a has
\* the lower code point, or a ends there.
StrLess(a, b) ==
    \E k \in 1 .. Len(b) :
       /\ \A j \in 1 .. k - 1 : j <= Len(a) /\ a[j] = b[j]
       /\ \/ k = Len(a) + 1
          \/ k <= Len(a) /\ a[k] < b[k]

\* The keys of the phases a map can have.
KeyTable == [i \in 0 .. MaxPhases - 1 |-> KeyOf(i)]

\* sorted(phases.keys()), as the phase numbers of the keys.
SortedKeys(n) ==
    [p \in 1 .. n |->
        CHOOSE i \in 0 .. n - 1 :
           Cardinality({ j \in 0 .. n - 1 : StrLess(KeyTable[j], KeyTable[i]) })
              = p - 1]

\* The sorted keys of the maps of every size.
SortedTable == [n \in 1 .. MaxPhases |-> SortedKeys(n)]

\* Lines 351-356: the start times, numbered by enumerate over the sorted
\* keys.
CreatePhaseTracker ==
    /\ transition_points = << >>
    /\ \E n \in { Cardinality(DOMAIN phase_map) } :
       \E order \in { SortedTable[n] } :
          transition_points' =
             TransitionPoints([p \in 1 .. n |-> phase_map[order[p]]])
    /\ UNCHANGED phase_map
    /\ UNCHANGED tpRest

\* The maps: phases 0 .. n-1 for some n, each with a duration.
TpInitOf(sizes) ==
    /\ \E n \in sizes : phase_map \in [0 .. n - 1 -> PhaseDurations]
    /\ transition_points = << >>

TpNext == CreatePhaseTracker

(***************************************************************************)
(*                 PHASE SEQUENCER: is_phase AT ANY TIME                   *)
(* is_phase reads the attribute last_phase of the function track_phase,    *)
(* which the first track_phase call creates.                               *)
(***************************************************************************)

\* is_phase calls followed in one run.
MaxIsPhaseCalls == 2

\* The phase numbers asked for: some of main()'s, and one on either side.
AskedPhases == {-1, 0, 2, 6}

\* `return track_phase.last_phase == phase`: reading an attribute the
\* function does not have raises AttributeError.
IsPhaseResult(p) ==
    IF last_phase = NoAttr THEN "AttributeError"
    ELSE IF last_phase = p THEN "True" ELSE "False"

\* is_phase(p), line 376.
IsPhaseCall(p) ==
    /\ isp_calls < MaxIsPhaseCalls
    /\ UNCHANGED phaseVars
    /\ isp_calls' = isp_calls + 1
    /\ isp_arg' = p
    /\ isp_result' = IsPhaseResult(p)
    /\ isp_cursor' = <<last_phase, last_phase'>>
    /\ UNCHANGED <<allocVars, pwmVars, mainVars, yawVars, imuVars, loopVars,
                   poseVars, ctlVars, mirVars, rateVars>>
    /\ UNCHANGED ispOthers

IspInitOf ==
    /\ isp_calls = 0
    /\ isp_arg = 0
    /\ isp_result = "none"
    /\ isp_cursor = <<NoAttr, NoAttr>>

IspNext ==
    \/ \E t \in TrackTimes : TrackPhase(t)
    \/ \E p \in AskedPhases : IsPhaseCall(p)

(***************************************************************************)
(*                 ACTUATOR: start(), stop() AND THE WORKERS               *)
(* Thrusters.start and Thrusters.stop called in any order on one           *)
(* actuator.  Worker k is the process the k-th start() created; a worker   *)
(* leaves its loops when it reads the running flag as false.               *)
(***************************************************************************)

\* start() calls followed in one run.
MaxStarts == 5

\* start(), lines 82-93: the flag is set if it was not, and a new process
\* is created, assigned to self.process and started, whatever the flag
\* and self.process were.
WkStart ==
    /\ wk_pc = "idle"
    /\ wk_starts < MaxStarts
    /\ wk_starts' = wk_starts + 1
    /\ wk_running' = TRUE
    /\ wk_process' = wk_starts + 1
    /\ wk_alive' = wk_alive \cup {wk_starts + 1}
    /\ UNCHANGED wk_pc
    /\ UNCHANGED wkRest

\* stop(), lines 98-101: the flag is cleared; the wait that follows is
\* for self.process, if there is one and it is alive.
WkStopBegin ==
    /\ wk_pc = "idle"
    /\ wk_running' = FALSE
    /\ wk_pc' = IF wk_process # 0 /\ wk_process \in wk_alive
                   THEN "join" ELSE "idle"
    /\ UNCHANGED <<wk_process, wk_alive, wk_starts>>
    /\ UNCHANGED wkRest

\* stop(), lines 104-108: sleep, join(timeout=1.0) and, if self.process is
\* still alive, terminate(); `killed` tells whether the signal ends it.
WkStopEnd(killed) ==
    /\ wk_pc = "join"
    /\ wk_pc' = "idle"
    /\ wk_alive' = IF killed THEN wk_alive \ {wk_process} ELSE wk_alive
    /\ UNCHANGED <<wk_running, wk_process, wk_starts>>
    /\ UNCHANGED wkRest

\* A worker reads the flag as false (lines 216, 241, 259; 290, 309) and
\* returns.
WkWorkerExit(w) ==
    /\ w \in wk_alive
    /\ ~wk_running
    /\ wk_alive' = wk_alive \ {w}
    /\ UNCHANGED <<wk_running, wk_process, wk_starts, wk_pc>>
    /\ UNCHANGED wkRest

\* __init__, lines 52-53.
WkInitOf ==
    /\ wk_running = FALSE
    /\ wk_process = 0
    /\ wk_alive = {}
    /\ wk_starts = 0
    /\ wk_pc = "idle"

WkNext ==
    \/ WkStart
    \/ WkStopBegin
    \/ \E killed \in BOOLEAN : WkStopEnd(killed)
    \/ \E w \in 1 .. MaxStarts : WkWorkerExit(w)

(***************************************************************************)
(*           ACTUATOR: THE ARGUMENTS OF THE SETTERS AND GETTERS            *)
(* set_duty_cycle, set_all_duty_cycles, get_state and get_duty_cycle of    *)
(* src/classes/Thrusters.py, called with indices and vectors in and out    *)
(* of range, on an actuator in any state of its channels.  No worker       *)
(* runs between the calls.                                                 *)
(***************************************************************************)

\* Calls followed in one run.
MaxApiCalls == 2

\* The thruster_index arguments: 1-based channels, and -1, 0 and N + 1.
IndexInputs == -1 .. NumChannels + 1

\* The vectors handed to set_all_duty_cycles: one entry short, N entries,
\* one entry too many.
VectorInputs ==
    UNION { [1 .. n -> {1, PeriodTicks + 1}] :
               n \in NumChannels - 1 .. NumChannels + 1 }

\* Mutant of the index test: 0 passes.
IndexInRange_FromZero(i) == 0 <= i /\ i <= NumChannels
\* `if 1 <= thruster_index <= self.NUM_THRUSTERS:`
IndexInRange(i) == 1 <= i /\ i <= NumChannels

\* The element list[k] of Python refers to, as a position 1 .. N: a
\* negative k counts from the end.
PyIndex(k) == IF k < 0 THEN NumChannels + k + 1 ELSE k + 1

ApiFields == <<api_requested, api_duty, api_states, api_updated>>

\* What a call leaves on record.
ApiRecord(op, arg, out) ==
    [op |-> op, arg |-> arg, out |-> out, before |-> ApiFields]

\* set_duty_cycle(thruster_index, duty_cycle), lines 134-140.
ApiSetDutyCycle(i, v) ==
    /\ api_calls < MaxApiCalls
    /\ api_calls' = api_calls + 1
    /\ IF IndexInRange(i)
          THEN /\ api_requested' =
                     [api_requested EXCEPT ![PyIndex(i - 1)] = Clamp(v)]
               /\ api_updated' = TRUE
               /\ api_last' = ApiRecord("set_duty_cycle", <<i>>, "None")
          ELSE /\ api_last' = ApiRecord("set_duty_cycle", <<i>>, "ValueError")
               /\ UNCHANGED <<api_requested, api_updated>>
    /\ UNCHANGED <<api_duty, api_states>>
    /\ UNCHANGED idxRest

\* set_all_duty_cycles(duty_cycles), lines 149-155.
ApiSetAllDutyCycles(vec) ==
    /\ api_calls < MaxApiCalls
    /\ api_calls' = api_calls + 1
    /\ IF Len(vec) # NumChannels
          THEN /\ api_last' = ApiRecord("set_all_duty_cycles", vec,
                                        "ValueError")
               /\ UNCHANGED <<api_requested, api_updated>>
          ELSE /\ api_requested' = [i \in Ch |-> Clamp(vec[i])]
               /\ api_updated' = TRUE
               /\ api_last' = ApiRecord("set_all_duty_cycles", vec, "None")
    /\ UNCHANGED <<api_duty, api_states>>
    /\ UNCHANGED idxRest

\* get_state(thruster_index), lines 161-164.
ApiGetState(i) ==
    /\ api_calls < MaxApiCalls
    /\ api_calls' = api_calls + 1
    /\ api_last' = ApiRecord("get_state", <<i>>,
                      IF IndexInRange(i)
                         THEN IF api_states[PyIndex(i - 1)] THEN "True"
                                                            ELSE "False"
                         ELSE "ValueError")
    /\ UNCHANGED <<api_requested, api_duty, api_states, api_updated>>
    /\ UNCHANGED idxRest

\* get_duty_cycle(thruster_index), lines 174-177.
ApiGetDutyCycle(i) ==
    /\ api_calls < MaxApiCalls
    /\ api_calls' = api_calls + 1
    /\ api_last' = ApiRecord("get_duty_cycle", <<i>>,
                      IF IndexInRange(i)
                         THEN IF api_duty[PyIndex(i - 1)] > 0 THEN "on"
                                                              ELSE "0.0"
                         ELSE "ValueError")
    /\ UNCHANGED <<api_requested, api_duty, api_states, api_updated>>
    /\ UNCHANGED idxRest

\* An actuator some time after __init__: the worker may have applied a
\* vector and switched channels.
IdxInitOf(duties) ==
    /\ api_requested \in [Ch -> duties]
    /\ api_duty = api_requested
    /\ api_states \in [Ch -> BOOLEAN]
    /\ api_updated = FALSE
    /\ api_calls = 0
    /\ api_last = [op |-> "none", arg |-> <<>>, out |-> "None",
                   before |-> ApiFields]

IdxNext ==
    \/ \E i \in IndexInputs, v \in DutyInputs : ApiSetDutyCycle(i, v)
    \/ \E vec \in VectorInputs : ApiSetAllDutyCycles(vec)
    \/ \E i \in IndexInputs : ApiGetState(i)
    \/ \E i \in IndexInputs : ApiGetDutyCycle(i)

(***************************************************************************)
(*           MAIN IN AN EXPERIMENT: THE FIELDS OF A POSE SNAPSHOT          *)
(* The dict _execute_data_stream publishes for a body, by its keys, and    *)
(* the reads main() makes of the snapshot of its own platform: the start   *)
(* time before the loop, and in every iteration the state and the elapsed  *)
(* time.  CHASER_ACTIVE and TARGET_ACTIVE are set.                         *)
(***************************************************************************)

\* Snapshots published, and loop iterations followed, in one run.
MaxPublished == 4
MaxSnapTicks == 2

\* The values of get_platform_id().
PlatformIds == 0 .. 3

\* The keys of the dict of Phasespace.py, lines 163-168.
PublishedFields == {"pos", "att", "vel", "omega"}

\* self.states[key] = {...}: the keys of the dict published for a body.
FieldsOf(body) == PublishedFields

\* self.states of __init__: None for every body.
NoSnapshot == [present |-> FALSE, keys |-> {}]

\* The body whose snapshot carries the time of platform p.
OwnBody(p) == IF p = 1 THEN "chaser" ELSE "target"

\* d[field] for the dict of a body: KeyError when the key is missing,
\* TypeError when the body has no dict (None).
ReadOutcome(body, field) ==
    IF ~snap_states[body].present THEN "TypeError"
    ELSE IF field \in snap_states[body].keys THEN "None" ELSE "KeyError"

\* The outcome of a run of reads: that of the first that fails.
RECURSIVE ReadAll(_)
ReadAll(reads) ==
    IF reads = << >> THEN [error |-> "None", field |-> "none"]
    ELSE IF ReadOutcome(reads[1][1], reads[1][2]) # "None"
            THEN [error |-> ReadOutcome(reads[1][1], reads[1][2]),
                  field |-> reads[1][2]]
            ELSE ReadAll(Tail(reads))

\* Lines 124-168: the pipeline publishes a dict for a body.
SnapPublish(body) ==
    /\ npublished < MaxPublished
    /\ npublished' = npublished + 1
    /\ snap_states' = [snap_states EXCEPT ![body] =
                        [present |-> TRUE, keys |-> FieldsOf(body)]]
    /\ UNCHANGED <<snap_platform, snap_pc, snap_error, snap_field, snap_ticks>>
    /\ UNCHANGED snapRest

\* Lines 111-155: main() leaves the wait once the chaser and the target
\* have data; on a platform other than 1 and 2 it leaves it at once
\* (lines 121-123).
SnapWait ==
    /\ snap_pc = "wait"
    /\ snap_platform \in {1, 2} =>
          snap_states["chaser"].present /\ snap_states["target"].present
    /\ snap_pc' = "t_init"
    /\ UNCHANGED <<snap_platform, snap_states, snap_error, snap_field,
                   npublished, snap_ticks>>
    /\ UNCHANGED snapRest

\* main() makes the reads `reads` and goes on to `next`, or the first read
\* that fails raises.
SnapReads(reads, next) ==
    /\ \E r \in { ReadAll(reads) } :
          /\ snap_error' = r.error
          /\ snap_field' = IF r.error = "None" THEN reads[Len(reads)][2]
                                               ELSE r.field
          /\ snap_pc' = IF r.error = "None" THEN next ELSE "raised"
    /\ UNCHANGED <<snap_platform, snap_states, npublished>>
    /\ UNCHANGED snapRest

\* Lines 173-182: t_init = latest_states.get(<own body>)['t'] on the
\* platforms 1 and 2, a message on any other.
SnapInitTime ==
    /\ snap_pc = "t_init"
    /\ IF snap_platform \in {1, 2}
          THEN SnapReads(<< <<OwnBody(snap_platform), "t">> >>, "loop")
          ELSE /\ snap_pc' = "loop"
               /\ UNCHANGED <<snap_platform, snap_states, snap_error,
                              snap_field, npublished>>
               /\ UNCHANGED snapRest
    /\ UNCHANGED snap_ticks

\* The reads of one iteration on the platforms 1 and 2: the state of the
\* chaser and of the target (lines 216-243), then the time of the own body
\* (lines 311-325).
TickReads(p) ==
    << <<"chaser", "pos">>, <<"chaser", "att">>,
       <<"chaser", "vel">>, <<"chaser", "omega">>,
       <<"target", "pos">>, <<"target", "att">>,
       <<"target", "vel">>, <<"target", "omega">>,
       <<OwnBody(p), "t">> >>

\* Lines 206-333: one iteration of the loop, as far as it reads the
\* snapshot; on a platform other than 1 and 2 the loop ends at once
\* (lines 244-246).
SnapTick ==
    /\ snap_pc = "loop"
    /\ snap_ticks < MaxSnapTicks
    /\ IF snap_platform \in {1, 2}
          THEN /\ SnapReads(TickReads(snap_platform), "loop")
               /\ snap_ticks' = IF snap_error' = "None" THEN snap_ticks + 1
                                                        ELSE snap_ticks
          ELSE /\ snap_pc' = "done"
               /\ UNCHANGED <<snap_platform, snap_states, snap_error,
                              snap_field, npublished, snap_ticks>>
               /\ UNCHANGED snapRest

\* __init__ of the pipeline (line 35) and main() at its wait.
SnapInitOf(platforms) ==
    /\ snap_platform \in platforms
    /\ snap_states = [b \in Bodies |-> NoSnapshot]
    /\ snap_pc = "wait"
    /\ snap_error = "None"
    /\ snap_field = "none"
    /\ npublished = 0
    /\ snap_ticks = 0

SnapNext ==
    \/ \E body \in Bodies : SnapPublish(body)
    \/ SnapWait
    \/ SnapInitTime
    \/ SnapTick

(***************************************************************************)
(*                            SPECIFICATIONS                               *)
(***************************************************************************)

PhaseIdle == PhaseInitOf({MainPhases})
AllocIdle == AllocInitOf({CHOOSE g \in Geometries : g.h[3] = 1 /\ g.d[2] = -1})

PwmIdle == PwmInitOf({FALSE})
MainIdle == MainInitOf({FALSE}, {0})
YawIdle == YawInitOf(0)
ImuIdle == ImuInitOf({FALSE})
LoopIdle == LoopInitOf({FALSE}, {10})
PoseIdle == PoseInitOf
CtlIdle == CtlInitOf
MirIdle == MirInitOf
RateIdle == RateInitOf
JoinIdle == JoinInitOf({"imu"})
DynIdle == DynInitOf({1})
LogIdle == LogInitOf({1})
TpIdle == TpInitOf({1}) /\ phase_map[0] = 10
IspIdle == IspInitOf
WkIdle == WkInitOf
IdxIdle == IdxInitOf({0}) /\ api_states = [i \in Ch |-> FALSE]
SnapIdle == SnapInitOf({1})
LateIdle ==
    /\ JoinIdle /\ DynIdle /\ LogIdle /\ TpIdle /\ IspIdle /\ WkIdle
    /\ IdxIdle /\ SnapIdle
ExtIdle ==
    /\ YawIdle /\ ImuIdle /\ LoopIdle /\ PoseIdle /\ CtlIdle /\ MirIdle /\ RateIdle
    /\ LateIdle

PhaseInit == PhaseInitOf(PhaseConfigs) /\ AllocIdle /\ PwmIdle /\ MainIdle /\ ExtIdle
SpecPhase == PhaseInit /\ [][PhaseNext]_vars

AllocInit == AllocInitOf(Geometries) /\ PhaseIdle /\ PwmIdle /\ MainIdle /\ ExtIdle
SpecAlloc == AllocInit /\ [][AllocNext]_vars

PwmInit == PwmInitOf(BOOLEAN) /\ PhaseIdle /\ AllocIdle /\ MainIdle /\ ExtIdle
SpecPwm == PwmInit /\ [][PwmNext]_vars
SpecPwmRun == PwmInit /\ [][PwmRunNext]_vars

MainInit == MainInitOf(BOOLEAN, {0, 1, 2}) /\ PhaseIdle /\ AllocIdle /\ PwmIdle /\ ExtIdle
SpecMain == MainInit /\ [][MainNext]_vars

YawInit == YawInitOf(0) /\ PhaseIdle /\ AllocIdle /\ PwmIdle /\ MainIdle /\ ImuIdle /\ LoopIdle /\ PoseIdle /\ CtlIdle /\ MirIdle /\ RateIdle /\ LateIdle
SpecYaw == YawInit /\ [][YawNext]_vars

ImuInit == ImuInitOf({FALSE}) /\ PhaseIdle /\ AllocIdle /\ PwmIdle /\ MainIdle /\ YawIdle /\ LoopIdle /\ PoseIdle /\ CtlIdle /\ MirIdle /\ RateIdle /\ LateIdle
SpecImu == ImuInit /\ [][ImuNext]_vars

\* The actuator together with the controller, whose methods the main
\* process calls between two calls of the actuator's.
PwmCtlNext ==
    \/ PwmRunNext
    \/ MainRuns /\ mpc = "idle" /\ ComputeControl(<<1000, 0, 0>>)
    \/ MainRuns /\ mpc = "idle" /\ ComputeDutyCycle
SpecPwmCtl == PwmInit /\ [][PwmCtlNext]_vars

PoseInit ==
    /\ PoseInitOf /\ PhaseIdle /\ AllocIdle /\ PwmIdle /\ MainIdle /\ YawIdle
    /\ ImuIdle /\ LoopIdle /\ CtlIdle /\ MirIdle /\ RateIdle /\ LateIdle
SpecPose == PoseInit /\ [][PoseNext]_vars

CtlInit ==
    /\ CtlInitOf /\ AllocInitOf(Geometries) /\ PhaseIdle /\ PwmIdle /\ MainIdle
    /\ YawIdle /\ ImuIdle /\ LoopIdle /\ PoseIdle /\ MirIdle /\ RateIdle /\ LateIdle
SpecCtl == CtlInit /\ [][CtlNext]_vars

MirInit ==
    /\ MirInitOf /\ PhaseIdle /\ AllocIdle /\ PwmIdle /\ MainIdle /\ YawIdle
    /\ ImuIdle /\ LoopIdle /\ PoseIdle /\ CtlIdle /\ RateIdle /\ LateIdle
SpecMirror == MirInit /\ [][MirNext]_vars

RateInit ==
    /\ RateInitOf /\ PhaseIdle /\ AllocIdle /\ PwmIdle /\ MainIdle /\ YawIdle
    /\ ImuIdle /\ LoopIdle /\ PoseIdle /\ CtlIdle /\ MirIdle /\ LateIdle
SpecRate == RateInit /\ [][RateNext]_vars

LoopInit ==
    /\ LoopInitOf(BOOLEAN, LoopPeriods) /\ PhaseInitOf(LoopConfigs)
    /\ AllocInitOf(Geometries) /\ PwmIdle /\ MainIdle /\ YawIdle /\ ImuIdle /\ PoseIdle
    /\ CtlIdle /\ MirIdle /\ RateIdle /\ LateIdle
SpecLoop == LoopInit /\ [][LoopNext]_vars

\* A simulation, whose every step is taken eventually.
LoopSimInit ==
    /\ LoopInitOf({FALSE}, LoopPeriods) /\ PhaseInitOf(LoopConfigs)
    /\ AllocInitOf(Geometries) /\ PwmIdle /\ MainIdle /\ YawIdle /\ ImuIdle /\ PoseIdle
    /\ CtlIdle /\ MirIdle /\ RateIdle /\ LateIdle
SpecLoopSim == LoopSimInit /\ [][LoopNext]_vars /\ WF_vars(LoopNext)

OldIdle ==
    /\ PhaseIdle /\ AllocIdle /\ PwmIdle /\ MainIdle /\ YawIdle /\ ImuIdle
    /\ LoopIdle /\ PoseIdle /\ CtlIdle /\ MirIdle /\ RateIdle

JoinInit ==
    /\ JoinInitOf(Pipelines) /\ OldIdle /\ DynIdle
    /\ LogIdle /\ TpIdle /\ IspIdle /\ WkIdle /\ IdxIdle /\ SnapIdle
SpecJoin == JoinInit /\ [][JoinNext]_vars
\* The thread runs on and a stop() that has begun goes on: each takes its
\* next step whenever it has one.
SpecJoinFair ==
    SpecJoin /\ WF_vars(JnThreadSteps) /\ WF_vars(JnStopSteps)

DynInit ==
    /\ DynInitOf(Masses) /\ OldIdle /\ JoinIdle /\ LogIdle
    /\ TpIdle /\ IspIdle /\ WkIdle /\ IdxIdle /\ SnapIdle
SpecDyn == DynInit /\ [][DynNext]_vars

LogInit ==
    /\ LogInitOf(ExpectedSizes) /\ OldIdle /\ JoinIdle
    /\ DynIdle /\ TpIdle /\ IspIdle /\ WkIdle /\ IdxIdle /\ SnapIdle
SpecLog == LogInit /\ [][LogNext]_vars

TpInit ==
    /\ TpInitOf(1 .. MaxPhases) /\ OldIdle /\ JoinIdle
    /\ DynIdle /\ LogIdle /\ IspIdle /\ WkIdle /\ IdxIdle /\ SnapIdle
SpecTp == TpInit /\ [][TpNext]_vars

IspOthersIdle == JoinIdle /\ DynIdle /\ LogIdle /\ TpIdle /\ WkIdle
    /\ IdxIdle /\ SnapIdle

IspInit ==
    /\ IspInitOf /\ PhaseInitOf({MainPhases}) /\ AllocIdle /\ PwmIdle /\ MainIdle
    /\ YawIdle /\ ImuIdle /\ LoopIdle /\ PoseIdle /\ CtlIdle /\ MirIdle /\ RateIdle
    /\ IspOthersIdle
SpecIsPhase == IspInit /\ [][IspNext]_vars

WkInit ==
    /\ WkInitOf /\ OldIdle /\ JoinIdle /\ DynIdle /\ LogIdle
    /\ TpIdle /\ IspIdle /\ IdxIdle /\ SnapIdle
SpecWorkers == WkInit /\ [][WkNext]_vars

IdxInit ==
    /\ IdxInitOf({0, PeriodTicks}) /\ OldIdle /\ JoinIdle
    /\ DynIdle /\ LogIdle /\ TpIdle /\ IspIdle /\ WkIdle /\ SnapIdle
SpecApi == IdxInit /\ [][IdxNext]_vars

SnapInit ==
    /\ SnapInitOf(PlatformIds) /\ OldIdle /\ JoinIdle
    /\ DynIdle /\ LogIdle /\ TpIdle /\ IspIdle /\ WkIdle /\ IdxIdle
SpecSnap == SnapInit /\ [][SnapNext]_vars

(***************************************************************************)
(*                                CLAIMS                                   *)
(***************************************************************************)

\* The clamped vectors of the set_all_duty_cycles calls made so far, and the
\* vector the actuator is constructed with.
CompleteVectors == written \cup { [i \in Ch |-> 0] }

\* The worker is inside one PWM period: between the period-start swap and
\* the return to the top of its loop.
InPeriod == process = "alive" /\ wpc \in {"on", "inner", "off"}

\* C1: once stop() has returned, get_state(i) is OFF for every channel, in
\* simulation mode as in experiment mode, wherever in the PWM period the
\* worker was when stop() was called.
C1_StoppedMeansAllOff == stop_returned => \A i \in Ch : ~get_state(i)

\* C2: whenever main() is left, also after an interrupt or an exception in
\* an earlier step, all three shutdown steps have run: no actuator is left
\* running, no sensor pipeline is left running, and a log buffer that holds
\* rows has been written to persistent storage.
C2_ShutdownStepsAlwaysRun ==
    main_pc = "exited" =>
        /\ \A k \in Actuators : thrusters[k] # "running"
        /\ sensors # "running"
        /\ nticks > 0 => dataContainer = "written"

\* C3: the signal handler does nothing but set the running flag: it makes no
\* GPIO write, no sleep, no join (and no terminate).
C3_HandlerOnlySetsFlag == handler_did = {}

\* C4: the applied duty vector changes only in the worker's period-start
\* swap; throughout a period it is the vector the period started with, so a
\* setter call made during the period changes no ON-duration of it.
C4_AppliedChangesOnlyAtPeriodStart ==
    [][ /\ duty_cycles' # duty_cycles => (process = "alive" /\ wpc = "copy")
        /\ InPeriod' => duty_cycles' = period_duty' ]_vars

\* C4 witness: during a period, with a channel ON, a setter call has asked
\* for another duty on that channel; the update is pending and the applied
\* vector is still the one the period started with.
C4_Witness ==
    /\ InPeriod /\ wpc # "on"
    /\ duty_cycle_updated
    /\ duty_cycles = period_duty
    /\ \E i \in Ch : /\ current_states[i]
                     /\ requested_duty_cycles[i] # duty_cycles[i]

HighestStarted(durs, t) ==
    LET tp == TransitionPoints(durs)
        S  == { i \in DOMAIN tp : tp[i] <= t }
    IN  IF S = {} THEN None ELSE CHOOSE i \in S : \A j \in S : j <= i

\* C6: whatever the order of the elapsed times handed to track, the phase
\* cursor after a call is greater than or equal to the cursor before it.
C6_CursorNeverDecreases == [][last_phase' >= last_phase]_vars

\* C6 witness: a call with an elapsed time earlier than the one before it,
\* whose own phase lies behind the cursor, left the cursor where it was.
C6_Witness ==
    /\ ~increasing
    /\ last_phase >= 1
    /\ CurrentPhase(phases, last_time) # None
    /\ CurrentPhase(phases, last_time) < last_phase
    /\ last_phase = prev_phase

\* C7 as stated: with increasing elapsed time, starting in phase 0, every
\* phase whose start boundary elapsed time has crossed has fired its
\* transition side effect exactly once, also when one call crossed several.
C7_Original ==
    (increasing /\ 0 \in landed) =>
        \A p \in DOMAIN fired :
            TransitionPoints(phases)[p] <= last_time => fired[p] = 1

\* C7 amended: with increasing elapsed time the side effect has fired exactly
\* once for every phase that was the highest started phase at some track
\* call and never for any other phase (a phase skipped by a call that
\* crosses several boundaries fires nothing), so never twice for a phase.
C7_FiresOncePerLandedPhase ==
    increasing =>
        \A p \in DOMAIN fired : fired[p] = IF p \in landed THEN 1 ELSE 0

\* C7 witness: time went up from phase 0 over at least two boundaries in one
\* call; the phase reached has fired once, a skipped one has not.
C7_Witness ==
    /\ increasing
    /\ 0 \in landed
    /\ prev_phase = 0
    /\ last_phase >= 2
    /\ fired[last_phase] = 1
    /\ \E p \in 1 .. last_phase - 1 : p \notin landed /\ fired[p] = 0

\* C8: on a fresh tracker, after track(t) with t >= 0 the cursor is the
\* highest-indexed phase whose cumulative start time is <= t; for durations
\* [5,5,40,170,30,20] s, track(4.9) gives 0, track(5.1) gives 1 and
\* track(260) gives 5.
C8_FreshTrackGivesHighestStarted ==
    (ncalls = 1 /\ last_time >= 0) =>
        /\ last_phase = HighestStarted(phases, last_time)
        /\ phases = MainPhases =>
              /\ last_time = 49 => last_phase = 0
              /\ last_time = 51 => last_phase = 1
              /\ last_time = 2600 => last_phase = 5

\* C8 witness: the first call on main()'s phases, at 260 s, gives phase 5.
C8_Witness ==
    ncalls = 1 /\ phases = MainPhases /\ last_time = 2600 /\ last_phase = 5

\* C9: every duty vector produced by allocation (the closed-form path and
\* the iterative one), for every desired signal and every decay factor
\* reached, has all eight entries in [0,1], and every entry below the
\* minimum on-time fraction valve_time x pwm_freq is exactly 0.
C9_DutyInUnitRangeAndFloored ==
    /\ alloc_duty # <<>> =>
          \A i \in Thr :
            /\ 0 <= alloc_duty[i] /\ alloc_duty[i] <= 1000
            /\ alloc_duty[i] < valve_time * pwm_freq => alloc_duty[i] = 0
    /\ dutyCycle # <<>> =>
          \A i \in Thr :
            /\ 0 <= dutyCycle[i] /\ dutyCycle[i] <= 1000
            /\ dutyCycle[i] < valve_time * pwm_freq => dutyCycle[i] = 0

\* C9 witness: an allocation scaled by a decay factor below 1 whose
\* pseudo-inverse solution had an entry above 1, now 1, and an entry
\* between 0 and the minimum on-time fraction, now 0.
C9_Witness ==
    /\ dutyCycle # <<>> /\ alloc_raw # <<>> /\ alloc_decay_in < 1000
    /\ \E i \in Thr : alloc_raw[i] > 1000 /\ dutyCycle[i] = 1000
    /\ \E j \in Thr : 0 < alloc_raw[j] /\ alloc_raw[j] < valve_time * pwm_freq
                      /\ dutyCycle[j] = 0

\* C10: in every state the decay factor lies in [0.8, 1.0], and after an
\* allocation whose duty vector has no active channel it is exactly 1.0.
C10_DecayInRange ==
    /\ 800 <= current_decay_factor /\ current_decay_factor <= 1000
    /\ (alloc_duty # <<>> /\ \A i \in Thr : alloc_duty[i] = 0)
          => current_decay_factor = 1000

\* C10 witness: an allocation that was scaled by a decay factor below 1
\* produced no active channel, and the decay factor is back at 1.0.
C10_Witness ==
    /\ alloc_duty # <<>> /\ \A i \in Thr : alloc_duty[i] = 0
    /\ alloc_decay_in < 1000
    /\ current_decay_factor = 1000

C12_ReinitOnceAtFive ==
    imu_read \in {"zeros", "valid"} =>
        /\ imu_attempts = IF zero_hit THEN 1 ELSE 0
        /\ imu_read = "valid" => consecutive_failures = 0

\* C13: compute_duty_cycle on a controller that has no body-frame signal
\* fails with an error and leaves the duty vector, the decay factor and the
\* achievable signal as they were.
C13_AllocationWithoutSignalFails ==
    [][ (alloc_op' = "compute_duty_cycle" /\ controlSignalBodyFrame = <<>>)
          => /\ alloc_error'
             /\ dutyCycle' = dutyCycle
             /\ current_decay_factor' = current_decay_factor
             /\ saturatedControlSignalBodyFrame' =
                   saturatedControlSignalBodyFrame ]_vars

\* C13 witness: the call has failed on a controller without a body-frame
\* signal that holds a decay factor below 1 and an achievable signal (of a
\* direct optimize_duty_cycle call, which returned a duty vector).
C13_Witness ==
    /\ alloc_op = "compute_duty_cycle" /\ alloc_error
    /\ controlSignalBodyFrame = <<>>
    /\ alloc_duty # <<>>
    /\ current_decay_factor < 1000
    /\ saturatedControlSignalBodyFrame # <<>>

\* The larger and the smaller of two numbers.
Max2(a, b) == IF a >= b THEN a ELSE b
Min2(a, b) == IF a <= b THEN a ELSE b

\* C14: whatever values the setters are handed (negative, above 1, in
\* range), every entry of the requested and of the applied duty vector lies
\* in [0,1] (0 .. PeriodTicks ticks), and every write of a setter stores
\* max(0, min(1, v)) for the value v it was handed.
C14_DutyVectorsClamped ==
    [][ /\ \A i \in Ch : /\ 0 <= requested_duty_cycles'[i]
                         /\ requested_duty_cycles'[i] <= PeriodTicks
                         /\ 0 <= duty_cycles'[i]
                         /\ duty_cycles'[i] <= PeriodTicks
        /\ requested_duty_cycles' # requested_duty_cycles =>
             IF mpc = "setall"
                THEN requested_duty_cycles' =
                       [requested_duty_cycles EXCEPT
                          ![mi] = Max2(0, Min2(PeriodTicks, marg[mi]))]
                ELSE \E i \in Ch, v \in DutyInputs :
                       requested_duty_cycles' =
                         [requested_duty_cycles EXCEPT
                            ![i] = Max2(0, Min2(PeriodTicks, v))] ]_vars

\* C14 witness: set_all_duty_cycles was handed a value above 1 and has
\* stored 1 for it, after set_duty_cycle was called, and the worker has
\* applied a vector with a non-zero entry.
C14_Witness ==
    /\ mpc = "setall" /\ mi > 1
    /\ marg[1] > PeriodTicks
    /\ requested_duty_cycles[1] = PeriodTicks
    /\ single_used
    /\ \E i \in Ch : duty_cycles[i] > 0


\* C15: whenever control is computed in an iteration of the main loop,
\* every controller's enable flag is false when the phase cursor is 0, 1
\* or 5 and true when it is 2, 3 or 4, whatever happened before.
C15_EnableIsFunctionOfPhase ==
    loop_pc \in {"control", "allocate", "actuate", "log", "timing"} =>
        \A c \in Controllers :
            /\ last_phase \in {0, 1, 5} => ~enable_control[c]
            /\ last_phase \in {2, 3, 4} => enable_control[c]
            /\ last_phase \in 0 .. 5

\* C15 witness: control is about to be computed in phase 5 with the flags
\* off, after phase 3, in which they were on, has been entered.
C15_Witness ==
    /\ loop_pc = "control"
    /\ last_phase = 5
    /\ fired[3] = 1
    /\ \A c \in Controllers : ~enable_control[c]

\* C16 (state part): in a simulation the loop body runs only while the
\* elapsed time is below the duration, control, actuation and log rows are
\* of times below the duration, and the loop has left at the first time
\* that is not: the time one period earlier was below the duration.
C16_Safe ==
    /\ loop_pc \in {"track", "enable", "control", "allocate", "actuate",
                    "log", "timing"} => t_now < DURATION
    /\ last_ctl < DURATION /\ last_act < DURATION /\ last_log < DURATION
    /\ loop_pc = "exited" =>
          /\ t_now >= DURATION
          /\ t_now - PERIOD < DURATION
          /\ nloops > 0 => last_log = t_now - PERIOD

C17_SnapshotsWholeAndUnchanged ==
    \A b \in Bodies :
        got[b] # 0 =>
            /\ heap[got[b]] = got_content[b]
            /\ \E s \in 1 .. MaxSamples + 1 :
                  LET dict == heap[got[b]]
                  IN  /\ dict.pos = s /\ dict.att = s
                      /\ dict.vel[2] = s /\ dict.omega[2] = s
                      /\ dict.vel = dict.omega

\* C17 witness: get() has returned the chaser's dict of one frame, and the
\* thread has published the chaser's dict of a later frame since.
C17_Witness ==
    /\ gpc = "idle"
    /\ got["chaser"] # 0
    /\ states["chaser"] # 0
    /\ states["chaser"] # got["chaser"]
    /\ heap[states["chaser"]].pos > heap[got["chaser"]].pos

\* C18: a step of set_duty_cycle or set_all_duty_cycles changes nothing of
\* the actuator but the requested duty vector and the dirty flag (and the
\* lock it holds meanwhile); a step of a controller method changes nothing
\* of the actuator at all; so the applied duty vector and the channel
\* states change only in steps of the PWM worker, in which neither the
\* main process nor the controller moves.
C18_OnlyWorkerWritesActuatorState ==
    [][ /\ (nsets' # nsets \/ (mpc = "setall" /\ <<mpc, mi>>' # <<mpc, mi>>)) =>
              UNCHANGED <<is_experiment, running, duty_cycles,
                          current_states, gpio, process, pwmWorker, nfaults>>
        /\ allocVars' # allocVars => UNCHANGED pwmVars
        /\ (duty_cycles' # duty_cycles \/ current_states' # current_states)
              => /\ UNCHANGED <<pwmMain, allocVars>>
                 /\ wpc \notin {"none", "exited"}
      ]_vars

\* C18 witness: with the worker alive, set_all_duty_cycles has returned
\* with a requested vector that differs from the applied one, and the
\* controller has computed a duty vector.
C18_Witness ==
    /\ process = "alive"
    /\ mpc = "idle" /\ nsets > 0
    /\ duty_cycle_updated
    /\ requested_duty_cycles # duty_cycles
    /\ alloc_op = "compute_control" /\ dutyCycle # <<>>

\* |x|
Abs(x) == IF x < 0 THEN -x ELSE x

\* C19: after an allocation by compute_control or compute_duty_cycle that
\* started from a decay factor of 1.0 and neither clipped nor zeroed a duty
\* value (the duty vector is the pseudo-inverse solution itself), the
\* achievable body-frame signal equals the desired body-frame signal, up to
\* the rounding of the duty values to thousandths.
C19_RoundTripReproducesDesired ==
    (/\ alloc_op \in {"compute_control", "compute_duty_cycle"}
     /\ ~alloc_error
     /\ alloc_decay_in = 1000
     /\ dutyCycle = alloc_raw)
    => \A k \in 1 .. 3 :
          Abs(saturatedControlSignalBodyFrame[k] - controlSignalBodyFrame[k])
             <= SumOver([i \in Thr |-> Abs(GeomTable[geom].B[k][i])], 8) + 2

\* C20: once an iteration of the main loop has actuated, the decay factor
\* that scaled H for the allocation whose duty vector it actuated (and is
\* about to log) is the factor the controller held when the iteration
\* began: the one computed from the duty vector of the iteration before,
\* or 1.0 in the first iteration.
C20_ActuatedAllocationLagsOneTick ==
    loop_pc \in {"log", "timing"} => act_decay_in = tick_decay

\* C21: whenever stop() has returned (and start() has not been called
\* since), the worker process is no longer alive: it has exited, or it was
\* force-terminated after the grace period.
C21_StopLeavesNoWorker ==
    stop_returned => process # "alive"

\* C22: the reinitializations attempted by the read loop are bounded by a
\* fixed retry count: however the sensor behaves, the loop never makes more
\* than max_failures calls of _initialize_sensor.
C22_ReinitAttemptsBounded ==
    total_attempts <= max_failures


\* C23: when compute_control has run on a disabled controller, whatever the
\* state and the target, its inertial signal is zero, every duty is zero,
\* the decay factor is 1.0 and the achievable body-frame signal is zero.
C23_DisabledControlIsZero ==
    (alloc_op = "compute_control" /\ ~ctl_enable) =>
        /\ controlSignal = <<0, 0, 0>>
        /\ dutyCycle = [i \in Thr |-> 0]
        /\ current_decay_factor = 1000
        /\ saturatedControlSignalBodyFrame = <<0, 0, 0>>
\* C23 witness: a controller that allocated a non-zero signal with a decay
\* factor below 1.0 was disabled, and compute_control has run on it since.
C23_Witness ==
    /\ alloc_op = "compute_control" /\ ~ctl_enable
    /\ alloc_decay_in < 1000
    /\ dutyCycle = [i \in Thr |-> 0]


\* C24: whenever the controller stores an achievable body-frame signal, it
\* is H(current decay factor) applied to the stored duty vector, and the
\* current decay factor is the one computed from that duty vector: no
\* operation leaves the achievable signal next to a duty vector or a decay
\* factor of an earlier allocation.
C24_AchievableMatchesCurrent ==
    saturatedControlSignalBodyFrame # <<>> =>
        /\ dutyCycle # <<>>
        /\ current_decay_factor = CalcDecay(dutyCycle)
        /\ saturatedControlSignalBodyFrame =
              Achievable(geom, current_decay_factor, dutyCycle)


\* The worker's turn-ON step and turn-OFF step on channel i.
OnStep(i) == wpc = "on" /\ wi = i /\ <<wpc, wi>>' # <<wpc, wi>>
OffStep(i) == wpc = "off" /\ wi = i /\ <<wpc, wi>>' # <<wpc, wi>>

\* C25 as stated: in every PWM period, in both modes and whatever happens
\* to the running flag and to the hardware writes, the turn-ON pass leaves a
\* channel ON exactly when its applied duty is > 0; a turn-OFF pass made at
\* an elapsed time >= duty x period leaves it OFF; a channel goes from OFF
\* to ON in the turn-ON pass only (one ON interval per period); and during
\* the period a channel of applied duty 0 is OFF.
C25_PulsePerPeriod ==
    [][ \A i \in Ch :
          /\ OnStep(i) => (current_states'[i] <=> duty_cycles[i] > 0)
          /\ (OffStep(i) /\ elapsed >= duty_cycles[i]) => ~current_states'[i]
          /\ (~current_states[i] /\ current_states'[i]) => OnStep(i)
          /\ (wpc' \in {"inner", "off"} /\ duty_cycles'[i] = 0)
                => ~current_states'[i] ]_vars

\* C25 amended: the same, where the turn-ON pass and the turn-OFF pass of
\* the experiment worker are those made while the running flag is set, and
\* the turn-ON pass is one whose hardware write does not fail.
C25_PulsePerPeriodWhileRunning ==
    [][ \A i \in Ch :
          /\ (OnStep(i) /\ (is_experiment => running /\ nfaults' = nfaults))
                => (current_states'[i] <=> duty_cycles[i] > 0)
          /\ (OffStep(i) /\ elapsed >= duty_cycles[i]
                /\ (is_experiment => running))
                => ~current_states'[i]
          /\ (~current_states[i] /\ current_states'[i]) => OnStep(i)
          /\ (wpc' \in {"inner", "off"} /\ duty_cycles'[i] = 0)
                => ~current_states'[i] ]_vars

\* C25 witness: a running worker in the middle of a period; the channels
\* whose ON-duration has elapsed are OFF again, the others are still ON,
\* and there is one of each.
C25_Witness ==
    /\ running /\ process = "alive" /\ wpc = "inner"
    /\ 0 < elapsed /\ elapsed < PeriodTicks
    /\ \A i \in Ch : current_states[i] <=> duty_cycles[i] > elapsed
    /\ \E i \in Ch : current_states[i]
    /\ \E i \in Ch : duty_cycles[i] > 0 /\ ~current_states[i]


\* C26: no duty request is lost.  Outside the critical sections a cleared
\* dirty flag means that the applied vector is the requested one; the
\* worker enters a period with the applied vector equal to the most recent
\* requested vector; and the dirty flag is cleared only by the worker, in
\* the critical section in which it has copied the requested vector, with
\* the copy complete.
C26_NoRequestLost ==
    /\ []((duty_cycle_lock = "free" /\ ~duty_cycle_updated)
             => duty_cycles = requested_duty_cycles)
    /\ [][ /\ (wpc \in {"lock", "copy"} /\ wpc' = "on")
                => duty_cycles' = requested_duty_cycles'
           /\ (duty_cycle_updated /\ ~duty_cycle_updated')
                => /\ wpc = "copy" /\ duty_cycle_lock = "worker"
                   /\ duty_cycles' = requested_duty_cycles' ]_vars

\* C26 witness: two different vectors were requested of a started worker;
\* the worker has copied the requested vector, cleared the flag and entered
\* a period with a non-zero vector applied.
C26_Witness ==
    /\ nsets = 2 /\ Cardinality(written) = 2
    /\ running /\ wpc = "on" /\ ~duty_cycle_updated
    /\ duty_cycles = requested_duty_cycles
    /\ duty_cycles \in written
    /\ \E i \in Ch : duty_cycles[i] > 0


\* C27: on the same duty requests, clock readings and stop request, and
\* with every hardware write succeeding, the simulation worker and the
\* experiment worker hold the same channel states at every step, from the
\* construction to the exit of the workers.
C27_SimulationMirrorsExperiment ==
    sim_states = exp_states


\* C28: when a hardware write fails in the turn-ON pass or in the turn-OFF
\* pass of the experiment loop, the channel is marked OFF, the worker stays
\* alive and goes on to the next channel of the pass or, after the last
\* channel, into the timing loop of the period, from which the following
\* periods start.
C28_WriteFailureIsContained ==
    [][ \A i \in Ch :
          ((OnStep(i) \/ OffStep(i)) /\ nfaults' > nfaults)
             => /\ ~current_states'[i]
                /\ process' = "alive"
                /\ IF i = NumChannels
                      THEN wpc' = "inner" /\ wi' = 1
                      ELSE wpc' = wpc /\ wi' = i + 1 ]_vars

\* C28 witness: a running experiment worker at the start of a timing loop,
\* after a turn-ON pass in which the write of a channel of duty > 0 failed
\* (it is OFF) and a later channel was turned ON.
C28_Witness ==
    /\ is_experiment /\ running /\ process = "alive"
    /\ wpc = "inner" /\ elapsed = 0 /\ nfaults = 1
    /\ \E j \in Ch : /\ duty_cycles[j] > 0 /\ ~current_states[j]
                     /\ \E i \in Ch : i > j /\ current_states[i]


\* The dict published for the body of the latest measurement and the time
\* elapsed since that body's previous sample.
LastState == rate_states[rate_last.key]
LastDt == rate_last.time - rate_last.before.time

\* q is the quotient diff / dt counted in thousandths (rounded down).
IsQuotient(q, diff, dt) == q * dt <= diff * 1000 /\ diff * 1000 < (q + 1) * dt

\* C29: for each body, the dict published for its first sample, and for a
\* sample whose elapsed time since that body's previous sample is not
\* positive, has zero translational velocity and zero yaw rate; every other
\* dict has the difference between the sample and that body's previous
\* sample, divided by the elapsed time (positions in metres).
C29_VelocitiesByFiniteDifference ==
    rate_last.key \in Bodies =>
        IF rate_last.before = NoSample \/ LastDt <= 0
           THEN LastState.vel = <<0, 0>> /\ LastState.omega = 0
           ELSE /\ \A k \in 1 .. 2 :
                     IsQuotient(LastState.vel[k],
                                rate_last.pos[k] - rate_last.before.pos[k],
                                LastDt)
                /\ IsQuotient(LastState.omega,
                              rate_last.yaw - rate_last.before.yaw, LastDt)

\* C29 witness: the second sample of a body, taken after a sample of another
\* body that lies elsewhere, has moved and turned against the body's own
\* first sample, and velocities that are not zero are published.
C29_Witness ==
    /\ rate_last.key = "target" /\ rate_last.before # NoSample
    /\ LastDt > 0
    /\ rate_prev["chaser"] # NoSample
    /\ rate_prev["chaser"].time > rate_last.before.time
    /\ rate_prev["chaser"].pos # rate_last.before.pos
    /\ LastState.vel # <<0, 0>> /\ LastState.omega # 0


\* C30: the yaw difference behind a published yaw rate is wrapped into
\* (-pi, pi]: the rate times the elapsed time lies in that interval, so two
\* samples on either side of the +pi/-pi boundary give a small rate.
C30_YawDifferenceWrapped ==
    (rate_last.key \in Bodies /\ rate_last.before # NoSample /\ LastDt > 0)
        => \E diff \in (1 - Pi) .. Pi :
              IsQuotient(LastState.omega, diff, LastDt)

\* C31: stop() of either sensor pipeline returns: once it has set the
\* stop event and waits for the thread, it returns after a bounded wait,
\* also when the thread never ends.
C31_StopReturns == (jn_pc = "join") ~> (jn_pc = "returned")

\* C31, the inertial pipeline alone: its stop() returns.
C31_ImuStopReturns ==
    (jn_kind = "imu" /\ jn_pc = "join") ~> (jn_pc = "returned")

\* C32: an update(dt) adds acceleration * dt to the velocity and then the
\* new velocity * dt to the position, likewise for yaw rate and yaw, and
\* leaves nothing pending; right after apply_force(f, tau) the added
\* velocity is (f / mass) * dt and the added yaw rate (tau / inertia) * dt;
\* an update with no apply_force since the update before leaves velocity
\* and yaw rate as they were.
C32_SemiImplicitEuler ==
    [][ (dyn_steps' # dyn_steps /\ dyn_last'.op = "update") =>
          \E dt \in TimeSteps :
             /\ \A k \in 1 .. 2 :
                   /\ velocity'[k] = velocity[k] + acceleration[k] * dt
                   /\ position'[k] = position[k] + velocity'[k] * dt
                   /\ dyn_last.op = "apply_force" =>
                         mass * (velocity'[k] - velocity[k]) =
                            dyn_last.force[k] * dt
             /\ angular_velocity' =
                   angular_velocity + angular_acceleration * dt
             /\ attitude' = attitude + angular_velocity' * dt
             /\ dyn_last.op = "apply_force" =>
                   inertia * (angular_velocity' - angular_velocity) =
                      dyn_last.torque * dt
             /\ acceleration' = <<0, 0>> /\ angular_acceleration' = 0
             /\ dyn_last.op = "update" =>
                   /\ velocity' = velocity
                   /\ angular_velocity' = angular_velocity ]_vars

\* C32 witness: an update right after an apply_force of a force that is
\* not zero has moved the platform, and one more update has followed.
C32_Witness ==
    /\ dyn_last.op = "update"
    /\ dyn_last.force = NoForce
    /\ velocity # <<0, 0>> /\ angular_velocity # 0
    /\ position # <<0, 0>>
    /\ acceleration = <<0, 0>>

\* Row i of a column, as far as the first n appends wrote it: the value of
\* append i where that append had the column.
RowsAsAppended(column, key, n) ==
    /\ Len(column) = n
    /\ \A i \in 1 .. n :
          key \in DOMAIN appended[i] => column[i] = appended[i][key]

\* C33: after k appends the store holds k rows: every column returns k
\* values from get_all_data, with the value of append i in row i, also
\* after the arrays were resized; no append indexes outside its array;
\* write_to_npy saves the first k rows of every column.
C33_RowsAsAppended ==
    /\ ~index_error
    /\ current_index = Len(appended)
    /\ DOMAIN storage_data = UNION { DOMAIN appended[i] : i \in 1 .. Len(appended) }
    /\ \A key \in DOMAIN storage_data :
          /\ Len(storage_data[key]) = expected_size
          /\ RowsAsAppended(GetAllData(key), key, Len(appended))
    /\ flushed_at >= 0 =>
          /\ DOMAIN flushed = UNION { DOMAIN appended[i] : i \in 1 .. flushed_at }
          /\ \A key \in DOMAIN flushed :
                RowsAsAppended(flushed[key], key, flushed_at)

\* C33 witness: four rows in a store made for one, and all four saved.
C33_Witness ==
    /\ Len(appended) = 4 /\ expected_size = 4
    /\ flushed_at = 4
    /\ DOMAIN flushed = LogKeys
    /\ flushed["Time (s)"][1] # flushed["Time (s)"][2]

\* The sum of the durations of phases 0 .. i-1.
RECURSIVE DurationsBefore(_)
DurationsBefore(i) ==
    IF i = 0 THEN 0 ELSE DurationsBefore(i - 1) + phase_map[i - 1]

\* C34: for a map of any number of phases the start time of phase i is
\* the sum of the durations of phases 0 .. i-1 in numeric order.
C34_StartTimesInNumericOrder ==
    transition_points # << >> =>
       \A i \in DOMAIN phase_map :
          transition_points[i] = DurationsBefore(i)

\* C34, maps of at most ten phases (keys PHASE_0 .. PHASE_9).
C34_UpToTenPhases ==
    (transition_points # << >> /\ Cardinality(DOMAIN phase_map) <= 10) =>
       \A i \in DOMAIN phase_map :
          transition_points[i] = DurationsBefore(i)

\* C35: is_phase(i) is a pure predicate on the cursor: a call made in any
\* state, also before the first track call, completes without error,
\* returns true exactly when the cursor equals i and leaves the cursor as
\* it was; after a track(t) with t >= 0 exactly one phase index satisfies
\* is_phase.
C35_IsPhaseIsPure ==
    /\ isp_calls > 0 =>
          /\ isp_result \in {"True", "False"}
          /\ isp_result = "True" <=> isp_cursor[1] = isp_arg
          /\ isp_cursor[2] = isp_cursor[1]
    /\ (ncalls > 0 /\ last_time >= 0) =>
          Cardinality({ i \in 0 .. Len(phases) - 1 : last_phase = i }) = 1

\* C35, calls made after the first track call only.
C35_AfterFirstTrack ==
    /\ (isp_calls > 0 /\ isp_cursor[1] # NoAttr) =>
          /\ isp_result \in {"True", "False"}
          /\ isp_result = "True" <=> isp_cursor[1] = isp_arg
          /\ isp_cursor[2] = isp_cursor[1]
    /\ (ncalls > 0 /\ last_time >= 0) =>
          Cardinality({ i \in 0 .. Len(phases) - 1 : last_phase = i }) = 1

\* C36: with several actuators in the process, a SIGINT or SIGTERM that
\* one of their handlers takes leaves no actuator running: the running
\* flag of every instance is false when the handler has returned.
C36_SignalStopsEveryActuator ==
    [][ (nsigint' = nsigint + 1 /\ sigint_handler # 0) =>
           \A k \in Actuators : thrusters'[k] # "running" ]_vars

\* C36, the actuator constructed last alone: the signal stops it.
C36_SignalStopsLastActuator ==
    [][ (nsigint' = nsigint + 1 /\ sigint_handler # 0) =>
           thrusters'[sigint_handler] # "running" ]_vars

\* C37: whatever the sequence of start() and stop() calls on an actuator,
\* at most one of its PWM workers is alive at any time.
C37_AtMostOneWorker == Cardinality(wk_alive) <= 1

\* The latest call had a channel index outside 1 .. N (0 included), or a
\* vector whose length is not N.
BadArgument ==
    \/ /\ api_last.op \in {"set_duty_cycle", "get_state", "get_duty_cycle"}
       /\ api_last.arg[1] \notin 1 .. NumChannels
    \/ /\ api_last.op = "set_all_duty_cycles"
       /\ Len(api_last.arg) # NumChannels

\* C38: a setter or getter called with a channel index outside 1 .. N, or
\* set_all_duty_cycles called with a vector of another length than N,
\* raises ValueError and leaves the requested vector, the applied vector,
\* the channel states and the dirty flag as they were.
C38_BadArgumentRaisesAndKeeps ==
    BadArgument =>
       /\ api_last.out = "ValueError"
       /\ ApiFields = api_last.before

\* C38 witness: set_duty_cycle(0, v) on an actuator with channels ON,
\* after a call that was accepted.
C38_Witness ==
    /\ api_calls = 2
    /\ api_last.op = "set_duty_cycle" /\ api_last.arg = <<0>>
    /\ api_last.out = "ValueError"
    /\ api_updated
    /\ \E i \in Ch : api_states[i]

\* The fields main() reads from a snapshot in an experiment.
MainReadsFields == {"pos", "att", "vel", "omega", "t"}

\* C39: every snapshot the pose pipeline publishes has every field main()
\* reads from it in an experiment (pos, att, vel, omega and the time 't'),
\* and no read of main() fails on a missing field.
C39_SnapshotHasEveryField ==
    /\ \A b \in Bodies :
          snap_states[b].present =>
             MainReadsFields \subseteq snap_states[b].keys
    /\ snap_error # "KeyError"

\* C39, the state fields alone: pos, att, vel and omega are in every
\* snapshot, and no read of them fails on a missing field.
C39_StateFieldsPresent ==
    /\ \A b \in Bodies :
          snap_states[b].present =>
             {"pos", "att", "vel", "omega"} \subseteq snap_states[b].keys
    /\ snap_error = "KeyError" => snap_field = "t"


\* C39, where the read fails: on the platforms 1 and 2 the read of 't'
\* before the loop raises once the wait is over, so that no iteration of
\* the loop is reached there.
C39_NoTickOnPlatforms ==
    snap_platform \in {1, 2} => snap_pc # "loop" /\ snap_ticks = 0

=============================================================================
